---- MODULE Spec2Model ----
(***************************************************************************)
(* A state-machine model of the podcast application: the route guard and   *)
(* the guarded views' load effects, the favorite / subscribe toggles, the  *)
(* dashboard delete, the create-episode / create-podcast forms and the     *)
(* episode player with its audio engine and animation-frame poller.        *)
(* Every component has its own specification over the shared variables.    *)
(***************************************************************************)
EXTENDS Integers, Sequences, FiniteSets, TLC

(***************************************************************************)
(* Identities                                                              *)
(***************************************************************************)
NoUser == "none"
Users == {"u1", "u2"}

VARIABLES
  \* ---- auth and routing (App / ProtectedRoute / guarded views) ----
  authLoading,    \* useAuth().loading
  user,           \* useAuth().user: NoUser or a user id
  route,          \* the router's current path
  mounted,        \* the element the last commit rendered for the route
  effectPending,  \* the mounted element's passive effect has not run yet
  signOutPending, \* Header.handleSignOut awaits signOut() resolved, navigate not yet run
  fetchLog,       \* history: the data-store queries issued by guarded views
  isCreator,      \* user.user_metadata.is_creator of the signed-in user
  \* ---- relationship toggles (EpisodePlayer.handleFavorite, PodcastDetail.handleSubscribe) ----
  tPage,          \* the mounted page: EpisodePlayer or PodcastDetail
  tUser,          \* the page's user (NoUser or a user id)
  tEpisode,       \* EpisodePlayer's episode state is set (handleFavorite needs it)
  rows,           \* the users holding a join row for the displayed episode / podcast
  flag,           \* isFavorite (EpisodePlayer) or isSubscribed (PodcastDetail)
  calls,          \* the toggle calls in flight
  gh,             \* history: the last two toggles that ran one after the other
  tLogged,        \* history: the toggle continuation that ran last called console.error
  \* ---- creator dashboard (Dashboard.tsx) and the podcasts table ----
  dUser,          \* the signed-in user the dashboard renders for
  dbPodcasts,     \* the ids of the rows of the podcasts table
  dashList,       \* Dashboard's `podcasts` state: the listed ids, newest first
  dashLoading,    \* Dashboard's `loading` state
  fetches,        \* fetchUserPodcasts calls in flight
  dels,           \* handleDeletePodcast calls in flight
  lastDel,        \* history: the handleDeletePodcast call that resolved last
  switches,       \* history: how often the dashboard's user changed
  dPage,          \* which creator page is mounted: "Dashboard" or "PodcastEpisodes"
  dbEpisodes,     \* the episodes table: the episodes of the route's podcast
  episodes,       \* PodcastEpisodes' `episodes` state
  epView,         \* what PodcastEpisodes renders: "loading", "list" or "error"
  \* ---- create forms (CreateEpisode.tsx, CreatePodcast.tsx) ----
  uPage,          \* the mounted form: CreateEpisode or CreatePodcast
  uUser,          \* the form's user
  podcast,        \* CreateEpisode's `podcast` state is set
  audioFile,      \* CreateEpisode's `audioFile` state
  coverImage,     \* CreatePodcast's `coverImage` state
  coverImagePreview, \* CreatePodcast's `coverImagePreview` state: the previewed file
  bucketReady,    \* CreatePodcast's `bucketReady` state
  bucketCheck,    \* checkBucketExists is still running
  formError,      \* the form's `error` state
  isUploading,    \* the form's `isUploading` state
  uploadProgress, \* CreateEpisode's `uploadProgress` state
  sub,            \* the onSubmit call in flight and where it awaits
  lastUpload,     \* history: the last storage upload issued
  lastInsert,     \* history: the last record the store accepted
  navigated,      \* the form navigated to the episodes page
  subDone,        \* history: how the last onSubmit call ended and the calls it had issued
  audioBucket,    \* CreateEpisode's createStorageBucket and the 'podcast-audio' bucket
  \* ---- episode player (EpisodePlayer.tsx) and its audio engine ----
  pMounted,       \* the EpisodePlayer instance is mounted
  pId,            \* useParams().id
  pUser,          \* useAuth().user as EpisodePlayer sees it
  loads,          \* fetchEpisodeDetails calls in flight: the id each closed over
  episode,        \* `episode` state: NoEpisode or the id of the loaded episode
  pLoading,       \* `loading` state
  pError,         \* `error` state is set
  isPlaying,      \* `isPlaying` state
  currentTime,    \* `currentTime` state (the seek bar shows the same value)
  volume,         \* `volume` state, in hundredths
  playerRef,      \* playerRef.current: NoEngine or the Howl it holds
  animationRef,   \* animationRef.current: NoFrame or the id of the last frame requested
  pending,        \* the animation-frame callbacks requested and neither run nor cancelled
  events,         \* engine events emitted and not yet handed to their handler
  lastHandler,    \* history: the engine handler or teardown that ran last
  sinceEnd,       \* history: onend ran and no play or seek has followed
  created,        \* history: how many Howl instances were constructed
  okLoads,        \* history: how many loads set `episode`
  loadRuns,       \* history: how often the load effect ran
  \* ---- the fetch a page runs on mount (its load effect) ----
  fPage,          \* the mounted page
  fUser,          \* useAuth().user as the page sees it
  fOwner,         \* the page's podcast has author_id = user.id
  fRow,           \* the store holds the (user, target) favorite / subscription row
  fPc,            \* the load effect: "mount" (not run yet), "await" (a query in flight), "done"
  fAt,            \* the position in the page's query list of the query in flight
  fLoading,       \* `loading` state
  fError,         \* `error` state is set
  fGot,           \* the queries whose result a state setter stored
  fFlag,          \* isFavorite / isSubscribed
  fNav,           \* the path the effect navigated to, if any
  fQueries,       \* history: the queries the current run issued, in order
  fLogged,        \* history: the current run called console.error
  fFailed,        \* history: the query of the current run that failed
  fRuns,          \* history: how often the effect ran
  \* ---- creating a podcast and listing it (CreatePodcast.tsx, Dashboard.tsx) ----
  jUser,          \* the signed-in user
  jPodcasts,      \* the podcasts table: rows with id, title and author_id
  jAt,            \* the page shown: "Dashboard", "CreatePodcast" or "PodcastEpisodes"
  jLoading,       \* Dashboard's `loading` state
  jError,         \* Dashboard's `error` state is set
  jList,          \* Dashboard's `podcasts` state
  jSub,           \* the title of the onSubmit call in flight, or NoTitle
  jFormError,     \* CreatePodcast shows a field error or its error banner
  jCreated,       \* history: the titles of the successful submissions, in order
  jOwnedAtStart,  \* history: how many podcasts the user owned at the start
  \* ---- the data store's tables (the schema's constraints) ----
  sqlPodcasts,      \* podcasts: rows with id and author_id
  sqlEpisodes,      \* episodes: rows with id and podcast_id
  sqlSubscriptions, \* subscriptions: rows with id, user_id and podcast_id
  sqlFavorites,     \* favorites: rows with id, user_id and episode_id
  sqlNextId,        \* the ids handed out so far (gen_random_uuid never repeats)
  sqlLast,          \* history: the last statement, its outcome and the rows it removed
  \* ---- the creator pages' ownership check (CreateEpisode, PodcastEpisodes) ----
  gPage,     \* which creator page is mounted
  gUser,     \* the signed-in user
  gId,       \* the podcast id in the route
  gMounted,  \* the page is mounted
  gPodcast,  \* `podcast` state: the id of the row held, or NoPodcastRow
  gEpisodes, \* `episodes` state: the podcast whose episodes are held, or NoPodcastRow
  gLoading,  \* `loading` state (PodcastEpisodes)
  gError,    \* `error` state is set
  gReqs,     \* store queries in flight, each with the id and user its run closed over
  gNav,      \* the last navigate() target
  gIssued,   \* history: the episode queries, uploads and inserts the pages issued
  gForeign,  \* history: a run received a podcast row of another author
  gRuns      \* runs of the effect so far

authVars == <<authLoading, user, route, mounted, effectPending, signOutPending, fetchLog,
              isCreator>>
toggleVars == <<tPage, tUser, tEpisode, rows, flag, calls, gh, tLogged>>
episodeVars == <<dPage, dbEpisodes, episodes, epView>>
dashVars == <<dUser, dbPodcasts, dashList, dashLoading, fetches, dels, lastDel, switches,
              episodeVars>>
uploadVars == <<uPage, uUser, podcast, audioFile, coverImage, coverImagePreview, bucketReady,
                bucketCheck, formError, isUploading, uploadProgress, sub, lastUpload,
                lastInsert, navigated, subDone, audioBucket>>

playerVars == <<pMounted, pId, pUser, loads, episode, pLoading, pError, isPlaying,
                currentTime, volume, playerRef, animationRef, pending, events,
                lastHandler, sinceEnd, created, okLoads, loadRuns>>

fetchVars == <<fPage, fUser, fOwner, fRow, fPc, fAt, fLoading, fError, fGot, fFlag, fNav,
               fQueries, fLogged, fFailed, fRuns>>

journeyVars == <<jUser, jPodcasts, jAt, jLoading, jError, jList, jSub, jFormError, jCreated,
                 jOwnedAtStart>>

schemaVars == <<sqlPodcasts, sqlEpisodes, sqlSubscriptions, sqlFavorites, sqlNextId, sqlLast>>

guardVars == <<gPage, gUser, gId, gMounted, gPodcast, gEpisodes, gLoading, gError, gReqs,
               gNav, gIssued, gForeign, gRuns>>

notAuth == <<toggleVars, dashVars, uploadVars, playerVars, fetchVars, journeyVars,
              schemaVars, guardVars>>
notToggle == <<authVars, dashVars, uploadVars, playerVars, fetchVars, journeyVars,
                schemaVars, guardVars>>
notDash == <<authVars, toggleVars, uploadVars, playerVars, fetchVars, journeyVars,
              schemaVars, guardVars>>
notUpload == <<authVars, toggleVars, dashVars, playerVars, fetchVars, journeyVars,
                schemaVars, guardVars>>
notPlayer == <<authVars, toggleVars, dashVars, uploadVars, fetchVars, journeyVars,
                schemaVars, guardVars>>
notFetch == <<authVars, toggleVars, dashVars, uploadVars, playerVars, journeyVars,
               schemaVars, guardVars>>
notJourney == <<authVars, toggleVars, dashVars, uploadVars, playerVars, fetchVars,
                 schemaVars, guardVars>>
notSchema == <<authVars, toggleVars, dashVars, uploadVars, playerVars, fetchVars, journeyVars,
               guardVars>>
notGuard == <<authVars, toggleVars, dashVars, uploadVars, playerVars, fetchVars, journeyVars,
              schemaVars>>

(***************************************************************************)
(* Routing: AppRoutes and ProtectedRoute                                   *)
(***************************************************************************)
GuardedRoutes == {"/dashboard", "/dashboard/podcasts/new", "/favorites", "/subscriptions"}
AllRoutes == {"/", "/login"} \cup GuardedRoutes
GuardedViews == {"Dashboard", "Favorites", "Subscriptions"}

\* <Route path=... element=...>: the page component a path selects.
RouteElement(r) ==
  CASE r = "/" -> "Home"
    [] r = "/login" -> "Login"
    [] r = "/dashboard" -> "Dashboard"
    [] r = "/dashboard/podcasts/new" -> "CreatePodcast"
    [] r = "/favorites" -> "Favorites"
    [] r = "/subscriptions" -> "Subscriptions"

ProtectedRoute_NoUserCheck(loading, u, child) ==
  IF loading THEN "Loading" ELSE child

\* ProtectedRoute: Loading while the auth state loads, <Navigate to="/login"/>
\* without a user, the children otherwise.
ProtectedRoute(loading, u, child) ==
  IF loading THEN "Loading"
  ELSE IF u = NoUser THEN "NavigateLogin"
  ELSE child

\* AppRoutes: what is rendered for (loading, user, route).
AppRoutes(loading, u, r) ==
  IF loading THEN "Loading"
  ELSE IF r \in GuardedRoutes THEN ProtectedRoute(loading, u, RouteElement(r))
  ELSE RouteElement(r)

HasEffect(view) == view \in GuardedViews \cup {"NavigateLogin"}

\* A render commit after a change of auth state or route: the element is
\* re-rendered; its effect is (re)scheduled on mount and when `user` changed.
Commit(loading2, u2, r2) ==
  LET v == AppRoutes(loading2, u2, r2) IN
  /\ authLoading' = loading2
  /\ user' = u2
  /\ route' = r2
  /\ mounted' = v
  /\ effectPending' = (HasEffect(v) /\ (v # mounted \/ u2 # user \/ effectPending))

\* The session restore of the auth provider finishes, with or without a user.
AuthResolved ==
  /\ authLoading
  /\ \E u \in Users \cup {NoUser} :
       /\ Commit(FALSE, u, route)
       /\ isCreator' \in IF u = NoUser THEN {FALSE} ELSE BOOLEAN
  /\ UNCHANGED <<signOutPending, fetchLog>>
  /\ UNCHANGED notAuth

\* A sign-in on the login page.
SignIn ==
  /\ ~authLoading /\ ~effectPending /\ ~signOutPending
  /\ user = NoUser /\ route = "/login"
  /\ \E u \in Users : Commit(FALSE, u, route)
  /\ isCreator' \in BOOLEAN
  /\ UNCHANGED <<signOutPending, fetchLog>>
  /\ UNCHANGED notAuth

\* Header.handleSignOut, first half: await supabase.auth.signOut().
HandleSignOutCall ==
  /\ ~authLoading /\ ~effectPending /\ ~signOutPending
  /\ user # NoUser
  /\ Commit(FALSE, NoUser, route)
  /\ signOutPending' = TRUE
  /\ isCreator' = FALSE
  /\ UNCHANGED fetchLog
  /\ UNCHANGED notAuth

\* Header.handleSignOut, second half: navigate('/login').
HandleSignOutNavigate ==
  /\ signOutPending /\ ~effectPending
  /\ Commit(authLoading, user, "/login")
  /\ signOutPending' = FALSE
  /\ UNCHANGED fetchLog
  /\ UNCHANGED isCreator
  /\ UNCHANGED notAuth

\* The user follows a link or enters a path.
Goto ==
  /\ ~effectPending
  /\ \E r \in AllRoutes : r # route /\ Commit(authLoading, user, r)
  /\ UNCHANGED <<signOutPending, fetchLog>>
  /\ UNCHANGED isCreator
  /\ UNCHANGED notAuth

HeaderLinks_CreatorOnly(u, creator) ==
  IF u = NoUser THEN {"/", "/login"}
  ELSE {"/", "/subscriptions", "/favorites"} \cup
       (IF creator THEN {"/dashboard", "/dashboard/podcasts/new"} ELSE {})

\* Header: the links rendered for `user`; 'Creator Dashboard' only with
\* user.user_metadata?.is_creator, 'Create Podcast' for every user.
HeaderLinks(u, creator) ==
  IF u = NoUser THEN {"/", "/login"}
  ELSE {"/", "/subscriptions", "/favorites", "/dashboard/podcasts/new"} \cup
       (IF creator THEN {"/dashboard"} ELSE {})

\* The user follows a link of the header.
FollowHeaderLink ==
  /\ ~authLoading /\ ~effectPending
  /\ \E r \in HeaderLinks(user, isCreator) : r # route /\ Commit(authLoading, user, r)
  /\ UNCHANGED <<signOutPending, fetchLog, isCreator>>
  /\ UNCHANGED notAuth

\* The load effect of Dashboard / Favorites / Subscriptions: without a user
\* navigate('/login') and return; otherwise issue the view's query.
GuardedViewEffect(view) ==
  IF user = NoUser
  THEN /\ Commit(authLoading, user, "/login")
       /\ UNCHANGED fetchLog
  ELSE /\ fetchLog' = fetchLog \cup {[view |-> view, user |-> user]}
       /\ effectPending' = FALSE
       /\ UNCHANGED <<authLoading, user, route, mounted>>

DashboardEffect ==
  /\ effectPending /\ mounted = "Dashboard"
  /\ GuardedViewEffect("Dashboard")
  /\ UNCHANGED signOutPending
  /\ UNCHANGED isCreator
  /\ UNCHANGED notAuth

FavoritesEffect ==
  /\ effectPending /\ mounted = "Favorites"
  /\ GuardedViewEffect("Favorites")
  /\ UNCHANGED signOutPending
  /\ UNCHANGED isCreator
  /\ UNCHANGED notAuth

SubscriptionsEffect ==
  /\ effectPending /\ mounted = "Subscriptions"
  /\ GuardedViewEffect("Subscriptions")
  /\ UNCHANGED signOutPending
  /\ UNCHANGED isCreator
  /\ UNCHANGED notAuth

\* <Navigate to="/login" /> rendered by ProtectedRoute takes effect.
NavigateLoginEffect ==
  /\ effectPending /\ mounted = "NavigateLogin"
  /\ Commit(authLoading, user, "/login")
  /\ UNCHANGED <<signOutPending, fetchLog>>
  /\ UNCHANGED isCreator
  /\ UNCHANGED notAuth

AuthInit ==
  /\ authLoading = TRUE
  /\ user = NoUser
  /\ route \in AllRoutes
  /\ mounted = "Loading"
  /\ effectPending = FALSE
  /\ signOutPending = FALSE
  /\ fetchLog = {}
  /\ isCreator = FALSE

\* The router at rest, for the specifications of the other components.
AuthIdle ==
  /\ authLoading = TRUE
  /\ user = NoUser
  /\ route = "/"
  /\ mounted = "Loading"
  /\ effectPending = FALSE
  /\ signOutPending = FALSE
  /\ fetchLog = {}
  /\ isCreator = FALSE

AuthNext ==
  \/ AuthResolved
  \/ SignIn
  \/ HandleSignOutCall
  \/ HandleSignOutNavigate
  \/ FollowHeaderLink
  \/ Goto
  \/ DashboardEffect
  \/ FavoritesEffect
  \/ SubscriptionsEffect
  \/ NavigateLoginEffect

(***************************************************************************)
(* Relationship toggles: favorites (user, episode) on EpisodePlayer,       *)
(* subscriptions (user, podcast) on PodcastDetail.  One of the two pages   *)
(* is mounted.  A store call is sent, processed by the store, and its      *)
(* continuation runs when the response arrives.                            *)
(***************************************************************************)
MaxCalls == 2
Pages == {"EpisodePlayer", "PodcastDetail"}

Snapshot == [flag |-> flag, row |-> (tUser \in rows)]
NoSnapshot == [flag |-> FALSE, row |-> FALSE]
GhInit == [n |-> 0, pre1 |-> NoSnapshot, pre2 |-> NoSnapshot, ok1 |-> FALSE, ok2 |-> FALSE]

\* if (isFavorite) delete ... else insert ...
FavoriteOp(isFav) == IF isFav THEN "delete" ELSE "insert"

\* if (isSubscribed) delete ... else insert ...
SubscribeOp(isSub) == IF isSub THEN "delete" ELSE "insert"

SetIsFavoriteAfter_Stuck(kind) == TRUE

\* setIsFavorite(false) after the delete, setIsFavorite(true) after the insert.
SetIsFavoriteAfter(kind) == (kind = "insert")

\* setIsSubscribed(false) after the delete, setIsSubscribed(true) after the insert.
SetIsSubscribedAfter(kind) == (kind = "insert")

\* The handler reads the flag of its render, sends one store call and awaits it.
ToggleCall(kind) ==
  /\ Cardinality(calls) < MaxCalls
  /\ calls' = calls \cup
       {[kind |-> kind, stage |-> "sent", pre |-> Snapshot, solo |-> (calls = {})]}
  /\ UNCHANGED <<tPage, tUser, tEpisode, rows, flag, gh, tLogged>>

\* handleFavorite up to its await: if (!user || !episode) return.
HandleFavoriteCall ==
  /\ tPage = "EpisodePlayer"
  /\ tUser # NoUser /\ tEpisode
  /\ ToggleCall(FavoriteOp(flag))
  /\ UNCHANGED notToggle

\* handleSubscribe up to its await: if (!user) return.
HandleSubscribeCall ==
  /\ tPage = "PodcastDetail"
  /\ tUser # NoUser
  /\ ToggleCall(SubscribeOp(flag))
  /\ UNCHANGED notToggle

\* The store's answer to an insert or a delete of the (user, target) row:
\* UNIQUE(user_id, target_id) rejects a second row; a delete of no row is accepted.
StoreApply(c) ==
  IF c.kind = "insert"
  THEN IF tUser \in rows
       THEN [rows |-> rows, res |-> "error"]
       ELSE [rows |-> rows \cup {tUser}, res |-> "ok"]
  ELSE [rows |-> rows \ {tUser}, res |-> "ok"]

\* The request reaches the store and is processed.
StoreProcess ==
  /\ \E c \in calls :
       /\ c.stage = "sent"
       /\ LET r == StoreApply(c) IN
          /\ rows' = r.rows
          /\ calls' = (calls \ {c}) \cup {[c EXCEPT !.stage = r.res]}
  /\ UNCHANGED <<tPage, tUser, tEpisode, flag, gh, tLogged>>
  /\ UNCHANGED notToggle

\* The request fails before the store sees it: the client resolves with an
\* error object, or the awaited promise rejects.
StoreUnreachable ==
  /\ \E c \in calls : \E how \in {"error", "throw"} :
       /\ c.stage = "sent"
       /\ calls' = (calls \ {c}) \cup {[c EXCEPT !.stage = how]}
  /\ UNCHANGED <<tPage, tUser, tEpisode, rows, flag, gh, tLogged>>
  /\ UNCHANGED notToggle

\* History of the toggles that ran one after the other.
GhAfter(c) ==
  IF c.solo /\ calls = {c}
  THEN [n |-> IF gh.n < 2 THEN gh.n + 1 ELSE 2,
        pre1 |-> c.pre, pre2 |-> gh.pre1,
        ok1 |-> (c.stage = "ok"), ok2 |-> gh.ok1]
  ELSE GhInit

\* The continuation after the await: the flag is set whenever the call
\* resolved (the returned error object is not inspected); a rejected promise
\* goes to the catch block, which calls console.error.
ToggleResolve(c, newFlag) ==
  /\ c.stage \in {"ok", "error", "throw"}
  /\ flag' = IF c.stage = "throw" THEN flag ELSE newFlag
  /\ calls' = calls \ {c}
  /\ gh' = GhAfter(c)
  /\ tLogged' = (c.stage = "throw")
  /\ UNCHANGED <<tPage, tUser, tEpisode, rows>>

HandleFavoriteResolve ==
  /\ tPage = "EpisodePlayer"
  /\ \E c \in calls : ToggleResolve(c, SetIsFavoriteAfter(c.kind))
  /\ UNCHANGED notToggle

HandleSubscribeResolve ==
  /\ tPage = "PodcastDetail"
  /\ \E c \in calls : ToggleResolve(c, SetIsSubscribedAfter(c.kind))
  /\ UNCHANGED notToggle

\* The mounted page after its load: the flag is what the favorite /
\* subscription check found (no check, and a false flag, without a user).
ToggleInit ==
  /\ tPage \in Pages
  /\ tUser \in Users \cup {NoUser}
  /\ tEpisode \in BOOLEAN
  /\ rows \in SUBSET Users
  /\ flag = (tUser \in rows)
  /\ calls = {}
  /\ gh = GhInit
  /\ tLogged = FALSE

\* The toggles at rest, for the specifications of the other components.
ToggleIdle ==
  /\ tPage = "EpisodePlayer"
  /\ tUser = NoUser
  /\ tEpisode = FALSE
  /\ rows = {}
  /\ flag = FALSE
  /\ calls = {}
  /\ gh = GhInit
  /\ tLogged = FALSE

ToggleNext ==
  \/ HandleFavoriteCall
  \/ HandleSubscribeCall
  \/ StoreProcess
  \/ StoreUnreachable
  \/ HandleFavoriteResolve
  \/ HandleSubscribeResolve

(***************************************************************************)
(* Creator dashboard: fetchUserPodcasts, handleDeletePodcast, and the      *)
(* podcasts table with its row-level delete policy.                        *)
(***************************************************************************)
MaxFetches == 1
MaxDels == 2
MaxSwitches == 1
PodcastIds == {"p1", "p2", "p3"}
AuthorOf == [p \in PodcastIds |-> IF p = "p3" THEN "u2" ELSE "u1"]
\* order('created_at', { ascending: false }): p3 is the newest row.
NewestFirst == <<"p3", "p2", "p1">>

Range(f) == {f[i] : i \in DOMAIN f}

\* No delete handler has run yet.
NoDel == [pid |-> "none", res |-> "none", alert |-> FALSE]

\* select('*').eq('author_id', user.id).order('created_at', desc)
SelectByAuthor(db, u) ==
  SelectSeq(NewestFirst, LAMBDA p : p \in db /\ AuthorOf[p] = u)

\* Dashboard's effect body: fetchUserPodcasts() is started for `user`.
StartFetch(u) ==
  fetches' = fetches \cup
     {[user |-> u, stage |-> "sent", data |-> <<>>]}

\* The auth context hands the mounted dashboard another user: the effect
\* ([user, navigate]) runs again.
DashUserChange ==
  /\ Cardinality(fetches) < MaxFetches
  /\ switches < MaxSwitches
  /\ \E u \in Users \ {dUser} :
       /\ dUser' = u
       /\ StartFetch(u)
  /\ switches' = switches + 1
  /\ UNCHANGED <<dbPodcasts, dashList, dashLoading, dels, lastDel, episodeVars>>
  /\ UNCHANGED notDash

\* The store answers the select, or the request fails.
FetchProcess ==
  /\ \E f \in fetches : \E ok \in BOOLEAN :
       /\ f.stage = "sent"
       /\ fetches' = (fetches \ {f}) \cup
            {IF ok THEN [f EXCEPT !.stage = "ok", !.data = SelectByAuthor(dbPodcasts, f.user)]
                   ELSE [f EXCEPT !.stage = "error"]}
  /\ UNCHANGED <<dUser, dbPodcasts, dashList, dashLoading, dels, lastDel, switches,
                 episodeVars>>
  /\ UNCHANGED notDash

\* fetchUserPodcasts after its await: setPodcasts(data || []) or the error
\* message; finally setLoading(false).
FetchResolve ==
  /\ \E f \in fetches :
       /\ f.stage \in {"ok", "error"}
       /\ fetches' = fetches \ {f}
       /\ dashList' = IF f.stage = "ok" THEN f.data ELSE dashList
  /\ dashLoading' = FALSE
  /\ lastDel' = NoDel
  /\ UNCHANGED <<dUser, dbPodcasts, dels, switches, episodeVars>>
  /\ UNCHANGED notDash

\* handleDeletePodcast(podcastId) up to its await: the user confirmed; the
\* delete .eq('id', podcastId) is sent with the session of the current user.
\* The continuation keeps the `podcasts` of the render it was created in.
HandleDeletePodcastCall ==
  /\ dPage = "Dashboard"
  /\ ~dashLoading
  /\ Cardinality(dels) < MaxDels
  /\ \E i \in DOMAIN dashList :
       dels' = dels \cup
         {[pid |-> dashList[i], caller |-> dUser, podcasts |-> dashList, stage |-> "sent"]}
  /\ UNCHANGED <<dUser, dbPodcasts, dashList, dashLoading, fetches, lastDel, switches,
                 episodeVars>>
  /\ UNCHANGED notDash

StoreDeletePodcast_NoPolicy(db, caller, pid) == db \ {pid}

\* DELETE FROM podcasts WHERE id = pid under the policy "Users can delete
\* their own podcasts" USING (auth.uid() = author_id): a row the policy hides
\* is not deleted, and that is no error.
StoreDeletePodcast(db, caller, pid) ==
  {p \in db : ~(p = pid /\ AuthorOf[p] = caller)}

\* The store runs the delete, or the request fails.
DeleteProcess ==
  /\ dPage = "Dashboard"
  /\ \E d \in dels : \E ok \in BOOLEAN :
       /\ d.stage = "sent"
       /\ dbPodcasts' = IF ok THEN StoreDeletePodcast(dbPodcasts, d.caller, d.pid)
                              ELSE dbPodcasts
       /\ dels' = (dels \ {d}) \cup {[d EXCEPT !.stage = IF ok THEN "ok" ELSE "error"]}
  /\ UNCHANGED <<dUser, dashList, dashLoading, fetches, lastDel, switches, episodeVars>>
  /\ UNCHANGED notDash

ListAfterDelete_Kept(podcasts, pid) == podcasts

AlertShown_Never(stage) == FALSE

\* catch (err) { console.error(...); alert('Failed to delete ...') }
AlertShown(stage) == stage = "error"

\* podcasts.filter(podcast => podcast.id !== podcastId)
ListAfterDelete(podcasts, pid) == SelectSeq(podcasts, LAMBDA p : p # pid)

\* handleDeletePodcast after its await: if (error) throw -> alert; otherwise
\* setPodcasts(podcasts.filter(...)) on the handler's own `podcasts`.
HandleDeletePodcastResolve ==
  /\ dPage = "Dashboard"
  /\ \E d \in dels :
       /\ d.stage \in {"ok", "error"}
       /\ dels' = dels \ {d}
       /\ dashList' = IF d.stage = "ok" THEN ListAfterDelete(d.podcasts, d.pid) ELSE dashList
       /\ lastDel' = [pid |-> d.pid, res |-> d.stage, alert |-> AlertShown(d.stage)]
  /\ UNCHANGED <<dUser, dbPodcasts, dashLoading, fetches, switches, episodeVars>>
  /\ UNCHANGED notDash

\* handleDeletePodcast when confirm() returns false: return before any call.
\* It changes nothing but the record of the last handler run.
HandleDeletePodcastDecline ==
  /\ dPage = "Dashboard"
  /\ ~dashLoading
  /\ \E i \in DOMAIN dashList :
       lastDel' = [pid |-> dashList[i], res |-> "declined", alert |-> FALSE]
  /\ UNCHANGED <<dUser, dbPodcasts, dashList, dashLoading, fetches, dels, switches,
                 episodeVars>>
  /\ UNCHANGED notDash

\* The dashboard has just been mounted: its first fetch is in flight.
DashInit ==
  /\ dUser \in Users
  /\ dbPodcasts = PodcastIds
  /\ dashList = <<>>
  /\ dashLoading = TRUE
  /\ fetches = {[user |-> dUser, stage |-> "sent", data |-> <<>>]}
  /\ dels = {}
  /\ lastDel = NoDel
  /\ switches = 0
  /\ dPage = "Dashboard"
  /\ dbEpisodes = {}
  /\ episodes = <<>>
  /\ epView = "loading"

\* The dashboard not mounted, for the specifications of the other components.
DashIdle ==
  /\ dUser = "u1"
  /\ dbPodcasts = {}
  /\ dashList = <<>>
  /\ dashLoading = TRUE
  /\ fetches = {}
  /\ dels = {}
  /\ lastDel = NoDel
  /\ switches = 0
  /\ dPage = "Dashboard"
  /\ dbEpisodes = {}
  /\ episodes = <<>>
  /\ epView = "loading"

DashNext ==
  \/ DashUserChange
  \/ FetchProcess
  \/ FetchResolve
  \/ HandleDeletePodcastCall
  \/ DeleteProcess
  \/ HandleDeletePodcastResolve

(***************************************************************************)
(* PodcastEpisodes: fetchPodcastAndEpisodes and handleDeleteEpisode, with  *)
(* the episodes table and its row-level delete policy.  The route names    *)
(* one podcast; every episode row belongs to it.                           *)
(***************************************************************************)
EpisodeIds == {"e1", "e2", "e3"}
\* author_id of the podcast the route names
PodcastOwner == "u1"
\* order('published_at', { ascending: false }): e3 is the newest episode.
NewestEpisodeFirst == <<"e3", "e2", "e1">>

\* select('*').eq('podcast_id', id).order('published_at', desc)
SelectByPodcast(db) == SelectSeq(NewestEpisodeFirst, LAMBDA e : e \in db)

\* fetchPodcastAndEpisodes to its end: a failed query sets the error; a
\* podcast of another author navigates away with `podcast` still null (the
\* "not found" view); otherwise the episodes are listed.  finally:
\* setLoading(false).
FetchPodcastAndEpisodes ==
  /\ dPage = "PodcastEpisodes"
  /\ epView = "loading"
  /\ \E ok \in BOOLEAN :
       IF ok /\ dUser = PodcastOwner
         THEN episodes' = SelectByPodcast(dbEpisodes) /\ epView' = "list"
         ELSE episodes' = episodes /\ epView' = "error"
  /\ UNCHANGED <<dUser, dbPodcasts, dashList, dashLoading, fetches, dels, lastDel, switches,
                 dPage, dbEpisodes>>
  /\ UNCHANGED notDash

\* handleDeleteEpisode(episodeId) up to its await: the user confirmed; the
\* continuation keeps the `episodes` of the render it was created in.
HandleDeleteEpisodeCall ==
  /\ dPage = "PodcastEpisodes"
  /\ epView = "list"
  /\ Cardinality(dels) < MaxDels
  /\ \E i \in DOMAIN episodes :
       dels' = dels \cup
         {[pid |-> episodes[i], caller |-> dUser, podcasts |-> episodes, stage |-> "sent"]}
  /\ UNCHANGED <<dUser, dbPodcasts, dashList, dashLoading, fetches, lastDel, switches,
                 episodeVars>>
  /\ UNCHANGED notDash

\* handleDeleteEpisode when confirm() returns false: return before any call.
HandleDeleteEpisodeDecline ==
  /\ dPage = "PodcastEpisodes"
  /\ epView = "list"
  /\ \E i \in DOMAIN episodes :
       lastDel' = [pid |-> episodes[i], res |-> "declined", alert |-> FALSE]
  /\ UNCHANGED <<dUser, dbPodcasts, dashList, dashLoading, fetches, dels, switches,
                 episodeVars>>
  /\ UNCHANGED notDash

\* DELETE FROM episodes WHERE id = eid under the policy "Users can delete
\* episodes for their own podcasts": a row the policy hides is not deleted,
\* and that is no error.
StoreDeleteEpisode(db, caller, eid) ==
  {e \in db : ~(e = eid /\ caller = PodcastOwner)}

\* The store runs the delete, or the request fails.
DeleteEpisodeProcess ==
  /\ dPage = "PodcastEpisodes"
  /\ \E d \in dels : \E ok \in BOOLEAN :
       /\ d.stage = "sent"
       /\ dbEpisodes' = IF ok THEN StoreDeleteEpisode(dbEpisodes, d.caller, d.pid)
                              ELSE dbEpisodes
       /\ dels' = (dels \ {d}) \cup {[d EXCEPT !.stage = IF ok THEN "ok" ELSE "error"]}
  /\ UNCHANGED <<dUser, dbPodcasts, dashList, dashLoading, fetches, lastDel, switches,
                 dPage, episodes, epView>>
  /\ UNCHANGED notDash

\* handleDeleteEpisode after its await: if (error) throw -> alert; otherwise
\* setEpisodes(episodes.filter(...)) on the handler's own `episodes`.
HandleDeleteEpisodeResolve ==
  /\ dPage = "PodcastEpisodes"
  /\ \E d \in dels :
       /\ d.stage \in {"ok", "error"}
       /\ dels' = dels \ {d}
       /\ episodes' = IF d.stage = "ok" THEN ListAfterDelete(d.podcasts, d.pid) ELSE episodes
       /\ lastDel' = [pid |-> d.pid, res |-> d.stage, alert |-> AlertShown(d.stage)]
  /\ UNCHANGED <<dUser, dbPodcasts, dashList, dashLoading, fetches, switches,
                 dPage, dbEpisodes, epView>>
  /\ UNCHANGED notDash

\* One of the two creator pages has just been mounted for a signed-in user.
DeleteInit ==
  /\ dPage \in {"Dashboard", "PodcastEpisodes"}
  /\ dUser \in Users
  /\ dbPodcasts = PodcastIds
  /\ dbEpisodes = EpisodeIds
  /\ dashList = <<>>
  /\ dashLoading = TRUE
  /\ episodes = <<>>
  /\ epView = "loading"
  /\ fetches = IF dPage = "Dashboard"
                 THEN {[user |-> dUser, stage |-> "sent", data |-> <<>>]} ELSE {}
  /\ dels = {}
  /\ lastDel = NoDel
  /\ switches = 0

\* The delete handlers of both pages while the signed-in user stays the same.
DeleteNext ==
  \/ FetchProcess
  \/ FetchResolve
  \/ HandleDeletePodcastCall
  \/ HandleDeletePodcastDecline
  \/ DeleteProcess
  \/ HandleDeletePodcastResolve
  \/ FetchPodcastAndEpisodes
  \/ HandleDeleteEpisodeCall
  \/ HandleDeleteEpisodeDecline
  \/ DeleteEpisodeProcess
  \/ HandleDeleteEpisodeResolve

(***************************************************************************)
(* Create forms: file selection and onSubmit of CreateEpisode and          *)
(* CreatePodcast.                                                          *)
(***************************************************************************)
NoFile == [type |-> <<>>, size |-> -1]

\* file.type values, as character sequences
AudioMpeg == <<"a","u","d","i","o","/","m","p","e","g">>
AudioNoSlash == <<"a","u","d","i","o">>
ImagePng == <<"i","m","a","g","e","/","p","n","g">>
TextAudio == <<"t","e","x","t","/","a","u","d","i","o","/">>
FileTypes == {AudioMpeg, AudioNoSlash, ImagePng, TextAudio, <<>>}

MB == 1024 * 1024
MaxAudioBytes == 100 * 1024 * 1024
MaxImageBytes == 5 * 1024 * 1024
FileSizes == {0, 1, 8738, 8739, MaxImageBytes, MaxImageBytes + 1,
              MaxAudioBytes, MaxAudioBytes + 1}

\* The files the user may pick in the file dialog.
Files == [type : FileTypes, size : FileSizes]

\* String.prototype.startsWith
StartsWith(str, prefix) ==
  Len(str) >= Len(prefix) /\ SubSeq(str, 1, Len(prefix)) = prefix

AudioPrefix == <<"a","u","d","i","o","/">>
ImagePrefix == <<"i","m","a","g","e","/">>

ErrAudioType == "Please upload an audio file"
ErrAudioSize == "Audio file size should be less than 100MB"
ErrImageType == "Please upload an image file"
ErrImageSize == "Image size should be less than 5MB"
ErrStorage == "Storage is not ready"
ErrUpload_Silent == "null"
ErrUpload == "upload failed"
ErrInsert == "insert failed"
ErrBucket == "bucket check failed"
ErrPodcast == "Failed to load podcast details"
NoError == "null"

AudioCheck_AcceptAll(file) == NoError

AudioCheck_NoSize(file) ==
  IF ~StartsWith(file.type, AudioPrefix) THEN ErrAudioType ELSE NoError

\* handleAudioChange's checks: the type, then the size.
AudioCheck(file) ==
  IF ~StartsWith(file.type, AudioPrefix) THEN ErrAudioType
  ELSE IF file.size > MaxAudioBytes THEN ErrAudioSize
  ELSE NoError

ImageCheck_NoType(file) ==
  IF file.size > MaxImageBytes THEN ErrImageSize ELSE NoError

\* handleImageChange's checks: the type, then the size.
ImageCheck(file) ==
  IF ~StartsWith(file.type, ImagePrefix) THEN ErrImageType
  ELSE IF file.size > MaxImageBytes THEN ErrImageSize
  ELSE NoError

ProgressAfterFinally_Kept(p) == p

\* finally { setIsUploading(false); setUploadProgress(0); }
ProgressAfterFinally(p) == 0

uploadFrame ==
  UNCHANGED <<uPage, uUser, podcast, bucketReady, bucketCheck, isUploading, uploadProgress,
              sub, lastUpload, lastInsert, navigated, subDone>>

\* handleAudioChange(e): nothing selected returns at once.
HandleAudioChange ==
  /\ uPage = "CreateEpisode" /\ podcast /\ ~navigated
  /\ \E file \in Files \cup {NoFile} :
       IF file = NoFile
       THEN UNCHANGED <<audioFile, formError>>
       ELSE IF AudioCheck(file) # NoError
       THEN formError' = AudioCheck(file) /\ UNCHANGED audioFile
       ELSE audioFile' = file /\ formError' = NoError
  /\ UNCHANGED <<coverImage, coverImagePreview>>
  /\ uploadFrame
  /\ UNCHANGED audioBucket
  /\ UNCHANGED notUpload

\* handleImageChange(e): nothing selected returns at once.
HandleImageChange ==
  /\ uPage = "CreatePodcast" /\ ~navigated
  /\ \E file \in Files \cup {NoFile} :
       IF file = NoFile
       THEN UNCHANGED <<coverImage, coverImagePreview, formError>>
       ELSE IF ImageCheck(file) # NoError
       THEN formError' = ImageCheck(file) /\ UNCHANGED <<coverImage, coverImagePreview>>
       ELSE coverImage' = file /\ coverImagePreview' = file /\ formError' = NoError
  /\ UNCHANGED audioFile
  /\ uploadFrame
  /\ UNCHANGED audioBucket
  /\ UNCHANGED notUpload

\* audio.duration as the transient audio element may report it, in
\* milliseconds; NotFinite stands for NaN or Infinity.
ReportedMs == {0, 499, 500, 61400}
NotFinite == -1
\* the element fired onerror instead of onloadedmetadata
MetadataError == -2

RoundSeconds_Floor(ms) == ms \div 1000

\* Math.round(audio.duration), the duration given in milliseconds
RoundSeconds(ms) == (ms + 500) \div 1000

\* Math.round(file.size / (1024 * 1024) * 60)
FallbackSeconds(size) ==
  60 * (size \div MB) + ((size % MB) * 60 + MB \div 2) \div MB

\* fileName = Math.random().toString(36)...: the storage path of an upload.
Paths == {"x1", "x2"}
NoPath == "none"
NoUrl == <<>>

GetPublicUrl_AnyPath(bucket, path) == <<bucket, "x1">>

\* getPublicUrl(filePath) on a bucket: the URL names the bucket and the path.
GetPublicUrl(bucket, path) == <<bucket, path>>

\* pc: "off" (not started), "list" (listBuckets awaited), "create"
\* (createBucket awaited), "done"; result: what the function concluded;
\* exists: the storage holds the 'podcast-audio' bucket.
BucketCheckOff == [pc |-> "off", result |-> "pending", exists |-> FALSE]

\* The transient audio element of a getAudioDuration call: what it reported
\* and how often its handlers have called resolve.
NoAudio == [reported |-> 0, resolves |-> 0]

IdleSub == [pc |-> "idle", file |-> NoFile, duration |-> 0, path |-> NoPath, url |-> NoUrl,
            steps |-> <<>>, audio |-> NoAudio]
NoSubDone == [outcome |-> "none", calls |-> <<>>, steps |-> <<>>, error |-> NoError,
              navigated |-> FALSE]

\* The store and storage calls among the steps of a submission.
IssuedCalls(steps) == SelectSeq(steps, LAMBDA x : x \in {"upload", "insert"})

\* The record of an onSubmit call that has ended: its outcome, the store and
\* storage calls it issued, and the error state and navigation it left.
SubEnded(outcome, steps, err, nav) ==
  [outcome |-> outcome, calls |-> IssuedCalls(steps), steps |-> steps, error |-> err,
   navigated |-> nav]
NoUpload == [bucket |-> "none", file |-> NoFile, path |-> NoPath]
NoInsert == [table |-> "none", duration |-> 0, file |-> NoFile, url |-> NoUrl]

\* CreateEpisode's effect: fetchPodcast resolves; the ownership check passed
\* (setPodcast), or the fetch failed (setError).
FetchPodcastResolve ==
  /\ uPage = "CreateEpisode" /\ ~podcast /\ formError = NoError
  /\ \E ok \in BOOLEAN :
       /\ podcast' = ok
       /\ formError' = IF ok THEN formError ELSE ErrPodcast
  /\ UNCHANGED <<uPage, uUser, audioFile, coverImage, coverImagePreview, bucketReady,
                 bucketCheck, isUploading, uploadProgress, sub, lastUpload, lastInsert,
                 navigated, subDone>>
  /\ UNCHANGED audioBucket
  /\ UNCHANGED notUpload

\* CreatePodcast's effect: checkBucketExists resolves.
CheckBucketResolve ==
  /\ uPage = "CreatePodcast" /\ bucketCheck
  /\ \E found \in BOOLEAN :
       /\ bucketReady' = found
       /\ formError' = IF found THEN formError ELSE ErrBucket
  /\ bucketCheck' = FALSE
  /\ UNCHANGED <<uPage, uUser, podcast, audioFile, coverImage, coverImagePreview,
                 isUploading, uploadProgress, sub, lastUpload, lastInsert, navigated,
                 subDone>>
  /\ UNCHANGED audioBucket
  /\ UNCHANGED notUpload

\* CreateEpisode.onSubmit up to its first await (getAudioDuration).
EpisodeOnSubmit ==
  /\ uPage = "CreateEpisode" /\ podcast /\ ~navigated /\ sub.pc = "idle"
  /\ IF uUser = NoUser \/ ~podcast \/ audioFile = NoFile
     THEN /\ formError' = ErrAudioType
          /\ UNCHANGED <<isUploading, sub>>
     ELSE /\ isUploading' = TRUE
          /\ formError' = NoError
          /\ \E path \in Paths :
               sub' = [pc |-> "duration", file |-> audioFile, duration |-> 0, path |-> path,
                       url |-> NoUrl, steps |-> <<>>, audio |-> NoAudio]
  /\ UNCHANGED subDone
  /\ UNCHANGED <<uPage, uUser, podcast, audioFile, coverImage, coverImagePreview, bucketReady,
                 bucketCheck, uploadProgress, lastUpload, lastInsert, navigated>>
  /\ UNCHANGED audioBucket
  /\ UNCHANGED notUpload

\* getAudioDuration(file): onloadedmetadata resolves with the rounded
\* reported duration, onerror with the estimate from the file's size.
GetAudioDuration(file, reported) ==
  IF reported = MetadataError THEN FallbackSeconds(file.size)
  ELSE IF reported = NotFinite THEN NotFinite
  ELSE RoundSeconds(reported)

\* onSubmit after getAudioDuration resolved: the upload to 'podcast-audio' is issued.
EpisodeDurationResolve ==
  /\ uPage = "CreateEpisode" /\ sub.pc = "duration"
  /\ \E reported \in ReportedMs \cup {NotFinite, MetadataError} :
       sub' = [sub EXCEPT !.pc = "upload", !.duration = GetAudioDuration(sub.file, reported),
                          !.steps = Append(@, "upload"),
                          !.audio = [reported |-> reported, resolves |-> 1]]
  /\ lastUpload' = [bucket |-> "podcast-audio", file |-> sub.file, path |-> sub.path]
  /\ UNCHANGED subDone
  /\ UNCHANGED <<uPage, uUser, podcast, audioFile, coverImage, coverImagePreview, bucketReady,
                 bucketCheck, formError, isUploading, uploadProgress, lastInsert, navigated>>
  /\ UNCHANGED audioBucket
  /\ UNCHANGED notUpload

\* audio.onerror fires after onloadedmetadata has resolved the promise (the
\* object URL was revoked there): resolve is called again, and a settled
\* promise ignores it.
AudioErrorAfterMetadata ==
  /\ uPage = "CreateEpisode" /\ sub.pc \in {"upload", "insert"}
  /\ sub.audio.reported # MetadataError
  /\ sub.audio.resolves = 1
  /\ sub' = [sub EXCEPT !.audio.resolves = 2]
  /\ UNCHANGED subDone
  /\ UNCHANGED <<uPage, uUser, podcast, audioFile, coverImage, coverImagePreview, bucketReady,
                 bucketCheck, formError, isUploading, uploadProgress, lastUpload, lastInsert,
                 navigated>>
  /\ UNCHANGED audioBucket
  /\ UNCHANGED notUpload

\* onUploadProgress: setUploadProgress(loaded / total * 100)
EpisodeUploadProgress ==
  /\ uPage = "CreateEpisode" /\ sub.pc = "upload"
  /\ \E percent \in {50, 100} : percent > uploadProgress /\ uploadProgress' = percent
  /\ UNCHANGED <<uPage, uUser, podcast, audioFile, coverImage, coverImagePreview, bucketReady,
                 bucketCheck, formError, isUploading, sub, lastUpload, lastInsert, navigated,
                 subDone>>
  /\ UNCHANGED audioBucket
  /\ UNCHANGED notUpload

\* onSubmit after the upload resolved: on an upload error throw (catch:
\* setError; finally: setIsUploading(false), setUploadProgress(0)); otherwise
\* getPublicUrl and the insert into episodes is issued.
EpisodeUploadResolve ==
  /\ uPage = "CreateEpisode" /\ sub.pc = "upload"
  /\ \E ok \in BOOLEAN :
       IF ok
       THEN /\ sub' = [sub EXCEPT !.pc = "insert",
                                  !.url = GetPublicUrl("podcast-audio", sub.path),
                                  !.steps = @ \o <<"uploaded", "url", "insert">>]
            /\ UNCHANGED <<formError, isUploading, uploadProgress, subDone>>
       ELSE /\ sub' = IdleSub
            /\ formError' = ErrUpload
            /\ isUploading' = FALSE
            /\ uploadProgress' = ProgressAfterFinally(uploadProgress)
            /\ subDone' = SubEnded("upload", sub.steps, formError', navigated)
  /\ UNCHANGED <<uPage, uUser, podcast, audioFile, coverImage, coverImagePreview, bucketReady,
                 bucketCheck, lastUpload, lastInsert, navigated>>
  /\ UNCHANGED audioBucket
  /\ UNCHANGED notUpload

\* episodes.duration INTEGER NOT NULL: a NaN or Infinity is sent as null and rejected.
EpisodeRowAccepted(duration) == duration # NotFinite

\* onSubmit after the insert resolved: on an insert error throw; otherwise navigate.
EpisodeInsertResolve ==
  /\ uPage = "CreateEpisode" /\ sub.pc = "insert"
  /\ \E reachable \in BOOLEAN :
       IF reachable /\ EpisodeRowAccepted(sub.duration)
       THEN /\ lastInsert' = [table |-> "episodes", duration |-> sub.duration,
                               file |-> sub.file, url |-> sub.url]
            /\ navigated' = TRUE
            /\ UNCHANGED formError
            /\ subDone' = SubEnded("ok", sub.steps \o <<"inserted", "navigate">>,
                                   formError', navigated')
       ELSE /\ formError' = ErrInsert
            /\ UNCHANGED <<lastInsert, navigated>>
            /\ subDone' = SubEnded("insert", sub.steps, formError', navigated')
  /\ sub' = IdleSub
  /\ isUploading' = FALSE
  /\ uploadProgress' = ProgressAfterFinally(uploadProgress)
  /\ UNCHANGED <<uPage, uUser, podcast, audioFile, coverImage, coverImagePreview, bucketReady,
                 bucketCheck, lastUpload>>
  /\ UNCHANGED audioBucket
  /\ UNCHANGED notUpload

\* CreatePodcast.onSubmit up to its first await: with a cover image and no
\* ready bucket it throws at once; with one the upload to 'podcast-covers' is
\* issued; without a cover image the insert is issued.
PodcastOnSubmit ==
  /\ uPage = "CreatePodcast" /\ ~navigated /\ sub.pc = "idle"
  /\ uUser # NoUser
  /\ IF coverImage # NoFile /\ ~bucketReady
     THEN /\ formError' = ErrStorage
          /\ isUploading' = FALSE
          /\ subDone' = SubEnded("storage", <<>>, formError', navigated)
          /\ UNCHANGED <<sub, lastUpload>>
     ELSE /\ formError' = NoError
          /\ isUploading' = TRUE
          /\ UNCHANGED subDone
          /\ IF coverImage # NoFile
             THEN /\ \E path \in Paths :
                       /\ sub' = [pc |-> "upload", file |-> coverImage, duration |-> 0,
                                  path |-> path, url |-> NoUrl, steps |-> <<"upload">>,
                                  audio |-> NoAudio]
                       /\ lastUpload' = [bucket |-> "podcast-covers", file |-> coverImage,
                                         path |-> path]
             ELSE /\ sub' = [pc |-> "insert", file |-> NoFile, duration |-> 0,
                             path |-> NoPath, url |-> NoUrl, steps |-> <<"insert">>,
                             audio |-> NoAudio]
                  /\ UNCHANGED lastUpload
  /\ UNCHANGED <<uPage, uUser, podcast, audioFile, coverImage, coverImagePreview, bucketReady,
                 bucketCheck, uploadProgress, lastInsert, navigated>>
  /\ UNCHANGED audioBucket
  /\ UNCHANGED notUpload

\* onSubmit after the cover upload resolved.
PodcastUploadResolve ==
  /\ uPage = "CreatePodcast" /\ sub.pc = "upload"
  /\ \E ok \in BOOLEAN :
       IF ok
       THEN /\ sub' = [sub EXCEPT !.pc = "insert",
                                  !.url = GetPublicUrl("podcast-covers", sub.path),
                                  !.steps = @ \o <<"uploaded", "url", "insert">>]
            /\ UNCHANGED <<formError, isUploading, subDone>>
       ELSE /\ sub' = IdleSub
            /\ formError' = ErrUpload
            /\ isUploading' = FALSE
            /\ subDone' = SubEnded("upload", sub.steps, formError', navigated)
  /\ UNCHANGED <<uPage, uUser, podcast, audioFile, coverImage, coverImagePreview, bucketReady,
                 bucketCheck, uploadProgress, lastUpload, lastInsert, navigated>>
  /\ UNCHANGED audioBucket
  /\ UNCHANGED notUpload

\* onSubmit after the insert into podcasts resolved.
PodcastInsertResolve ==
  /\ uPage = "CreatePodcast" /\ sub.pc = "insert"
  /\ \E ok \in BOOLEAN :
       IF ok
       THEN /\ lastInsert' = [table |-> "podcasts", duration |-> 0, file |-> sub.file,
                               url |-> sub.url]
            /\ navigated' = TRUE
            /\ UNCHANGED formError
            /\ subDone' = SubEnded("ok", sub.steps \o <<"inserted", "navigate">>,
                                   formError', navigated')
       ELSE /\ formError' = ErrInsert
            /\ UNCHANGED <<lastInsert, navigated>>
            /\ subDone' = SubEnded("insert", sub.steps, formError', navigated')
  /\ sub' = IdleSub
  /\ isUploading' = FALSE
  /\ UNCHANGED <<uPage, uUser, podcast, audioFile, coverImage, coverImagePreview, bucketReady,
                 bucketCheck, uploadProgress, lastUpload>>
  /\ UNCHANGED audioBucket
  /\ UNCHANGED notUpload

\* A create form has just been mounted for a signed-in user.
FormInit ==
  /\ uPage \in {"CreateEpisode", "CreatePodcast"}
  /\ uUser \in Users
  /\ podcast = FALSE
  /\ audioFile = NoFile
  /\ coverImage = NoFile
  /\ coverImagePreview = NoFile
  /\ bucketReady = FALSE
  /\ bucketCheck = (uPage = "CreatePodcast")
  /\ formError = NoError
  /\ isUploading = FALSE
  /\ uploadProgress = 0
  /\ sub = IdleSub
  /\ lastUpload = NoUpload
  /\ lastInsert = NoInsert
  /\ navigated = FALSE
  /\ subDone = NoSubDone

\* The forms by themselves: createStorageBucket is left out.
UploadInit == FormInit /\ audioBucket = BucketCheckOff

\* No create form mounted, for the specifications of the other components.
UploadIdle ==
  /\ uPage = "CreateEpisode"
  /\ uUser = "u1"
  /\ podcast = FALSE
  /\ audioFile = NoFile
  /\ coverImage = NoFile
  /\ coverImagePreview = NoFile
  /\ bucketReady = FALSE
  /\ bucketCheck = FALSE
  /\ formError = NoError
  /\ isUploading = FALSE
  /\ uploadProgress = 0
  /\ sub = IdleSub
  /\ lastUpload = NoUpload
  /\ lastInsert = NoInsert
  /\ navigated = FALSE
  /\ subDone = NoSubDone
  /\ audioBucket = BucketCheckOff

UploadNext ==
  \/ FetchPodcastResolve
  \/ CheckBucketResolve
  \/ HandleAudioChange
  \/ HandleImageChange
  \/ EpisodeOnSubmit
  \/ EpisodeDurationResolve
  \/ AudioErrorAfterMetadata
  \/ EpisodeUploadProgress
  \/ EpisodeUploadResolve
  \/ EpisodeInsertResolve
  \/ PodcastOnSubmit
  \/ PodcastUploadResolve
  \/ PodcastInsertResolve

(***************************************************************************)
(* CreateEpisode's createStorageBucket, which the mount effect starts next *)
(* to fetchPodcast, together with the two forms.                           *)
(***************************************************************************)
\* createStorageBucket after listBuckets: the listing names the bucket; or
\* it does not (also when the listing failed and `buckets` is undefined) and
\* createBucket is called; or the call threw and the catch logs.
ListBucketsResolve ==
  /\ uPage = "CreateEpisode" /\ audioBucket.pc = "list"
  /\ \E answer \in {"listed", "failed", "threw"} :
       audioBucket' =
         IF answer = "threw" THEN [audioBucket EXCEPT !.pc = "done", !.result = "failed"]
         ELSE IF answer = "listed" /\ audioBucket.exists
           THEN [audioBucket EXCEPT !.pc = "done", !.result = "found"]
           ELSE [audioBucket EXCEPT !.pc = "create"]
  /\ UNCHANGED <<uPage, uUser, podcast, audioFile, coverImage, coverImagePreview, bucketReady,
                 bucketCheck, formError, isUploading, uploadProgress, sub, lastUpload,
                 lastInsert, navigated, subDone>>
  /\ UNCHANGED notUpload

\* createStorageBucket after createBucket('podcast-audio', { public: true }):
\* the bucket is created, or the call answers with an error (the bucket
\* exists already, or the user may not create buckets), which is logged.
CreateBucketResolve ==
  /\ uPage = "CreateEpisode" /\ audioBucket.pc = "create"
  /\ \E ok \in BOOLEAN :
       audioBucket' =
         IF ok /\ ~audioBucket.exists
           THEN [pc |-> "done", result |-> "created", exists |-> TRUE]
           ELSE [audioBucket EXCEPT !.pc = "done", !.result = "failed"]
  /\ UNCHANGED <<uPage, uUser, podcast, audioFile, coverImage, coverImagePreview, bucketReady,
                 bucketCheck, formError, isUploading, uploadProgress, sub, lastUpload,
                 lastInsert, navigated, subDone>>
  /\ UNCHANGED notUpload

\* A create form has just been mounted; on CreateEpisode the effect has
\* called createStorageBucket, and the bucket exists or does not.
BucketInit ==
  /\ FormInit
  /\ audioBucket \in
       IF uPage = "CreateEpisode"
         THEN {[pc |-> "list", result |-> "pending", exists |-> e] : e \in BOOLEAN}
         ELSE {BucketCheckOff}

\* Up to the first audio upload of CreateEpisode; CreatePodcast in full.
BucketNext ==
  \/ FetchPodcastResolve
  \/ CheckBucketResolve
  \/ ListBucketsResolve
  \/ CreateBucketResolve
  \/ HandleAudioChange
  \/ HandleImageChange
  \/ EpisodeOnSubmit
  \/ EpisodeDurationResolve
  \/ PodcastOnSubmit
  \/ PodcastUploadResolve
  \/ PodcastInsertResolve

(***************************************************************************)
(* EpisodePlayer: the audio engine (a Howl created with html5: true)       *)
(***************************************************************************)
MaxSounds == 2
MaxFrames == 2
MaxLoads == 2
MaxEvents == 2
TrackLen == 1

Episodes == {"e1", "e2"}
NoEpisode == "none"
NoFrame == 0
Frames == 1..MaxFrames
Volumes == {50, 80}
InitialVolume == 80

\* A Howl keeps a list of sounds; each is playing, paused or ended at an offset.
\* The sound a load creates starts out ended at offset 0.
NewSound == [st |-> "ended", pos |-> 0]
NoEngine == [made |-> FALSE, src |-> NoEpisode, state |-> "none", volume |-> 0,
             sounds |-> <<>>]

\* new Howl({ src: [episode.audio_url], html5: true, volume }): bound to the
\* episode's audio_url, with the sound its load creates.
HowlNew(ep, vol) ==
  [made |-> TRUE, src |-> ep, state |-> "loaded", volume |-> vol,
   sounds |-> <<NewSound>>]

Repeat(e, n) == [i \in 1..n |-> e]

SoundsIn(h, st) == {i \in 1..Len(h.sounds) : h.sounds[i].st = st}

\* A play() whose 'play' event is still to be handled holds the engine's play
\* lock: the next play() does not look for a paused sound to resume.
PlayLock == \E i \in 1..Len(events) : events[i] = "play"

\* play() with no id: resume the one paused sound if there is exactly one
\* (and no lock), else reuse the first ended sound, else start a new sound.
PlayTarget(h, lock) ==
  IF ~lock /\ Cardinality(SoundsIn(h, "paused")) = 1
    THEN CHOOSE i \in SoundsIn(h, "paused") : TRUE
    ELSE IF SoundsIn(h, "ended") # {}
      THEN CHOOSE i \in SoundsIn(h, "ended") : \A j \in SoundsIn(h, "ended") : i <= j
      ELSE Len(h.sounds) + 1

HowlPlay(h, lock) ==
  LET t == PlayTarget(h, lock)
  IN  [h EXCEPT !.state = "loaded",
                !.sounds = IF t > Len(h.sounds)
                             THEN Append(h.sounds, [st |-> "playing", pos |-> 0])
                             ELSE [h.sounds EXCEPT ![t] =
                                     [st |-> "playing",
                                      pos |-> IF @.st = "paused" THEN @.pos ELSE 0]]]

\* pause() with no id pauses every playing sound, one 'pause' event each.
HowlPause(h) ==
  [h EXCEPT !.sounds = [i \in 1..Len(h.sounds) |->
                          IF h.sounds[i].st = "playing"
                            THEN [h.sounds[i] EXCEPT !.st = "paused"]
                            ELSE h.sounds[i]]]

\* unload() stops every playing sound, one 'stop' event each, and drops the
\* sounds; the handlers stay registered and the Howl object stays reachable.
HowlUnload(h) == [h EXCEPT !.state = "unloaded", !.sounds = <<>>]

\* seek(t) with no id positions the first sound; seek() reads its offset.
HowlSeekTo(h, t) ==
  IF Len(h.sounds) = 0 THEN h
  ELSE [h EXCEPT !.sounds[1] = [st |-> IF @.st = "ended" THEN "paused" ELSE @.st,
                                pos |-> t]]

HowlSeek(h) == IF Len(h.sounds) = 0 THEN 0 ELSE h.sounds[1].pos

\* volume(v) takes effect on a loaded Howl; on one that is not loaded the
\* call waits in the Howl's queue for a load, which an unloaded Howl never gets.
HowlVolume(h, v) == IF h.state = "loaded" THEN [h EXCEPT !.volume = v] ELSE h

\* Time passes: every playing sound that has not reached the end advances.
Tick ==
  /\ \E i \in SoundsIn(playerRef, "playing") : playerRef.sounds[i].pos < TrackLen
  /\ playerRef' = [playerRef EXCEPT !.sounds =
                     [i \in 1..Len(playerRef.sounds) |->
                        IF playerRef.sounds[i].st = "playing" /\ playerRef.sounds[i].pos < TrackLen
                          THEN [playerRef.sounds[i] EXCEPT !.pos = @ + 1]
                          ELSE playerRef.sounds[i]]]
  /\ UNCHANGED <<pMounted, pId, pUser, loads, episode, pLoading, pError, isPlaying,
                 currentTime, volume, animationRef, pending, events, lastHandler,
                 sinceEnd, created, okLoads, loadRuns>>
  /\ UNCHANGED notPlayer

\* A playing sound reaches the end of the track: the engine marks it ended,
\* rewinds it and emits 'end'.
SoundEnded ==
  /\ \E i \in SoundsIn(playerRef, "playing") :
       /\ playerRef.sounds[i].pos = TrackLen
       /\ playerRef' = [playerRef EXCEPT !.sounds[i] = [st |-> "ended", pos |-> 0]]
  /\ Len(events) < MaxEvents
  /\ events' = Append(events, "end")
  /\ UNCHANGED <<pMounted, pId, pUser, loads, episode, pLoading, pError, isPlaying,
                 currentTime, volume, animationRef, pending, lastHandler,
                 sinceEnd, created, okLoads, loadRuns>>
  /\ UNCHANGED notPlayer

(***************************************************************************)
(* EpisodePlayer: the component                                            *)
(***************************************************************************)
\* A state setter of an unmounted component changes nothing.
SetState(cur, new) == IF pMounted THEN new ELSE cur

\* The player controls render once loading is over, with an episode and no error.
Controls == pMounted /\ ~pLoading /\ ~pError /\ episode # NoEpisode

\* The engine-init effect: a Howl is constructed only while the ref is empty.
EngineInitEffect(ep, h) == IF ep # NoEpisode /\ ~h.made THEN HowlNew(ep, volume) ELSE h

\* if (animationRef.current) cancelAnimationFrame(animationRef.current)
CancelFrame == IF animationRef # NoFrame THEN pending \ {animationRef} ELSE pending

\* requestAnimationFrame returns an id no pending callback holds.
NextFrame(pend) == CHOOSE f \in Frames : f \notin pend /\ \A g \in Frames \ pend : f <= g

\* The load effect's cleanup: unload the Howl the ref holds (the ref keeps
\* pointing at it) and cancel the frame animationRef names.
Cleanup ==
  /\ playerRef' = IF playerRef.made THEN HowlUnload(playerRef) ELSE playerRef
  /\ events' = events \o Repeat("stop", Cardinality(SoundsIn(playerRef, "playing")))
  /\ Len(events') <= MaxEvents
  /\ pending' = CancelFrame
  /\ lastHandler' = "teardown"

\* fetchEpisodeDetails resolves; the commit of setEpisode runs the engine-init
\* effect.  A later query of the same call may still fail and set `error`.
LoadResolve ==
  /\ \E id \in loads, outcome \in {"ok", "episodeError", "laterError"} :
       /\ loads' = loads \ {id}
       /\ episode' = SetState(episode, IF outcome = "episodeError" THEN episode ELSE id)
       /\ pError' = SetState(pError, pError \/ outcome # "ok")
       /\ pLoading' = SetState(pLoading, FALSE)
       /\ playerRef' = IF pMounted THEN EngineInitEffect(episode', playerRef) ELSE playerRef
       /\ created' = IF playerRef' # playerRef THEN created + 1 ELSE created
       /\ okLoads' = IF pMounted /\ outcome # "episodeError" THEN okLoads + 1 ELSE okLoads
  /\ UNCHANGED <<pMounted, pId, pUser, isPlaying, currentTime, volume, animationRef,
                 pending, events, lastHandler, sinceEnd, loadRuns>>
  /\ UNCHANGED notPlayer

\* The route id changes while the component stays mounted: cleanup of the
\* previous effect run, then the effect body with the new id.
RouteChange ==
  /\ pMounted
  /\ loadRuns < MaxLoads
  /\ \E id \in Episodes \ {pId} :
       /\ pId' = id
       /\ loads' = loads \cup {id}
  /\ Cleanup
  /\ loadRuns' = loadRuns + 1
  /\ UNCHANGED <<pMounted, pUser, episode, pLoading, pError, isPlaying, currentTime,
                 volume, animationRef, sinceEnd, created, okLoads>>
  /\ UNCHANGED notPlayer

\* The user changes (sign-in or sign-out) while the component stays mounted.
PlayerUserChange ==
  /\ pMounted
  /\ loadRuns < MaxLoads
  /\ pUser' = IF pUser = NoUser THEN "u1" ELSE NoUser
  /\ loads' = loads \cup {pId}
  /\ Cleanup
  /\ loadRuns' = loadRuns + 1
  /\ UNCHANGED <<pMounted, pId, episode, pLoading, pError, isPlaying, currentTime,
                 volume, animationRef, sinceEnd, created, okLoads>>
  /\ UNCHANGED notPlayer

Unmount ==
  /\ pMounted
  /\ pMounted' = FALSE
  /\ Cleanup
  /\ UNCHANGED <<pId, pUser, loads, episode, pLoading, pError, isPlaying, currentTime,
                 volume, animationRef, sinceEnd, created, okLoads, loadRuns>>
  /\ UNCHANGED notPlayer

\* togglePlayPause reads the rendered isPlaying.  play() on an unloaded Howl
\* is outside the engine's contract: it is ignored or it starts a sound on the
\* old source.
TogglePlayPause ==
  /\ Controls
  /\ playerRef.made
  /\ IF isPlaying
       THEN /\ playerRef' = HowlPause(playerRef)
            /\ events' = events \o Repeat("pause", Cardinality(SoundsIn(playerRef, "playing")))
            /\ Len(events') <= MaxEvents
            /\ UNCHANGED sinceEnd
       ELSE /\ \E started \in BOOLEAN :
                 /\ playerRef.state = "loaded" => started
                 /\ IF started
                      THEN /\ PlayTarget(playerRef, PlayLock) <= MaxSounds
                           /\ Len(events) < MaxEvents
                           /\ playerRef' = HowlPlay(playerRef, PlayLock)
                           /\ events' = Append(events, "play")
                      ELSE UNCHANGED <<playerRef, events>>
            /\ sinceEnd' = FALSE
  /\ UNCHANGED <<pMounted, pId, pUser, loads, episode, pLoading, pError, isPlaying,
                 currentTime, volume, animationRef, pending, lastHandler, created,
                 okLoads, loadRuns>>
  /\ UNCHANGED notPlayer

HandleSeek ==
  /\ Controls
  /\ playerRef.made
  /\ \E seekTime \in (0..TrackLen) \ {currentTime} :
       /\ playerRef' = HowlSeekTo(playerRef, seekTime)
       /\ currentTime' = seekTime
  /\ sinceEnd' = FALSE
  /\ UNCHANGED <<pMounted, pId, pUser, loads, episode, pLoading, pError, isPlaying,
                 volume, animationRef, pending, events, lastHandler, created, okLoads,
                 loadRuns>>
  /\ UNCHANGED notPlayer

\* handleVolumeChange; the commit of setVolume re-runs the engine-init effect.
HandleVolumeChange ==
  /\ Controls
  /\ \E newVolume \in Volumes \ {volume} :
       /\ volume' = newVolume
       /\ playerRef' = EngineInitEffect(episode,
                         IF playerRef.made THEN HowlVolume(playerRef, newVolume)
                         ELSE playerRef)
  /\ created' = IF playerRef'.made /\ ~playerRef.made THEN created + 1 ELSE created
  /\ UNCHANGED <<pMounted, pId, pUser, loads, episode, pLoading, pError, isPlaying,
                 currentTime, animationRef, pending, events, lastHandler, sinceEnd,
                 okLoads, loadRuns>>
  /\ UNCHANGED notPlayer

\* The Howl's onplay handler.
OnPlay ==
  /\ events # <<>> /\ Head(events) = "play"
  /\ Cardinality(pending) < MaxFrames
  /\ events' = Tail(events)
  /\ isPlaying' = SetState(isPlaying, TRUE)
  /\ animationRef' = NextFrame(pending)
  /\ pending' = pending \cup {animationRef'}
  /\ lastHandler' = "play"
  /\ sinceEnd' = FALSE
  /\ UNCHANGED <<pMounted, pId, pUser, loads, episode, pLoading, pError, currentTime,
                 volume, playerRef, created, okLoads, loadRuns>>
  /\ UNCHANGED notPlayer

OnPause ==
  /\ events # <<>> /\ Head(events) = "pause"
  /\ events' = Tail(events)
  /\ isPlaying' = SetState(isPlaying, FALSE)
  /\ pending' = CancelFrame
  /\ lastHandler' = "pause"
  /\ UNCHANGED <<pMounted, pId, pUser, loads, episode, pLoading, pError, currentTime,
                 volume, playerRef, animationRef, sinceEnd, created, okLoads, loadRuns>>
  /\ UNCHANGED notPlayer

OnStop ==
  /\ events # <<>> /\ Head(events) = "stop"
  /\ events' = Tail(events)
  /\ isPlaying' = SetState(isPlaying, FALSE)
  /\ pending' = CancelFrame
  /\ lastHandler' = "stop"
  /\ UNCHANGED <<pMounted, pId, pUser, loads, episode, pLoading, pError, currentTime,
                 volume, playerRef, animationRef, sinceEnd, created, okLoads, loadRuns>>
  /\ UNCHANGED notPlayer

OnEnd ==
  /\ events # <<>> /\ Head(events) = "end"
  /\ events' = Tail(events)
  /\ isPlaying' = SetState(isPlaying, FALSE)
  /\ currentTime' = SetState(currentTime, 0)
  /\ pending' = CancelFrame
  /\ lastHandler' = "end"
  /\ sinceEnd' = TRUE
  /\ UNCHANGED <<pMounted, pId, pUser, loads, episode, pLoading, pError, volume,
                 playerRef, animationRef, created, okLoads, loadRuns>>
  /\ UNCHANGED notPlayer

\* A pending animation-frame callback runs: updateSeekBar copies the engine's
\* offset into currentTime and requests the next frame, whatever the state.
UpdateSeekBar ==
  /\ \E f \in pending :
       /\ animationRef' = NextFrame(pending \ {f})
       /\ pending' = (pending \ {f}) \cup {animationRef'}
  /\ currentTime' = IF playerRef.made THEN SetState(currentTime, HowlSeek(playerRef))
                    ELSE currentTime
  /\ UNCHANGED <<pMounted, pId, pUser, loads, episode, pLoading, pError, isPlaying,
                 volume, playerRef, events, lastHandler, sinceEnd, created, okLoads,
                 loadRuns>>
  /\ UNCHANGED notPlayer

PlayerInit ==
  /\ pMounted = TRUE
  /\ pId = "e1"
  /\ pUser = "u1"
  /\ loads = {"e1"}
  /\ episode = NoEpisode
  /\ pLoading = TRUE
  /\ pError = FALSE
  /\ isPlaying = FALSE
  /\ currentTime = 0
  /\ volume = InitialVolume
  /\ playerRef = NoEngine
  /\ animationRef = NoFrame
  /\ pending = {}
  /\ events = <<>>
  /\ lastHandler = "none"
  /\ sinceEnd = FALSE
  /\ created = 0
  /\ okLoads = 0
  /\ loadRuns = 1

\* No EpisodePlayer is mounted.
PlayerIdle ==
  /\ pMounted = FALSE
  /\ pId = "e1"
  /\ pUser = NoUser
  /\ loads = {}
  /\ episode = NoEpisode
  /\ pLoading = TRUE
  /\ pError = FALSE
  /\ isPlaying = FALSE
  /\ currentTime = 0
  /\ volume = InitialVolume
  /\ playerRef = NoEngine
  /\ animationRef = NoFrame
  /\ pending = {}
  /\ events = <<>>
  /\ lastHandler = "none"
  /\ sinceEnd = FALSE
  /\ created = 0
  /\ okLoads = 0
  /\ loadRuns = 0

\* Playback in a mounted player, up to its unmount.
PlayerNext ==
  \/ LoadResolve
  \/ Unmount
  \/ TogglePlayPause
  \/ HandleSeek
  \/ HandleVolumeChange
  \/ OnPlay
  \/ OnPause
  \/ OnStop
  \/ OnEnd
  \/ UpdateSeekBar
  \/ Tick
  \/ SoundEnded

\* The load effect's life cycle: loads, teardowns and the engine they leave.
LoadNext ==
  \/ LoadResolve
  \/ RouteChange
  \/ PlayerUserChange
  \/ Unmount
  \/ TogglePlayPause
  \/ HandleVolumeChange
  \/ OnPlay
  \/ OnPause
  \/ OnStop
  \/ UpdateSeekBar

(***************************************************************************)
(* From the dashboard to the create-podcast form and back: the podcasts    *)
(* table with the rows' title and author_id, Dashboard's fetchUserPodcasts *)
(* and CreatePodcast's onSubmit without a cover image.                     *)
(***************************************************************************)
MaxCreates == 2
\* data.title as typed; podcastSchema: title min(3), description min(10)
Titles == {"Test Show", "My Show", "Hi"}
DescriptionLengths == {5, 50}
NoTitle == ""
MinTitle == 3
MinDescription == 10

\* zodResolver(podcastSchema): handleSubmit calls onSubmit only for valid values.
SchemaAccepts(title, descLen) == Len(title) >= MinTitle /\ descLen >= MinDescription

OwnedBy_Anyone(table, u) == table

\* .eq('author_id', user.id)
OwnedBy(table, u) == {r \in table : r.author_id = u}

\* select('*').eq('author_id', user.id).order('created_at', { ascending: false }):
\* ids are handed out in creation order, so the newest row has the largest id.
RECURSIVE NewestRowsFirst(_)
NewestRowsFirst(rs) ==
  IF rs = {} THEN <<>>
  ELSE LET r == CHOOSE x \in rs : \A y \in rs : y.id <= x.id
       IN  <<r>> \o NewestRowsFirst(rs \ {r})

SelectOwnPodcasts(table, u) == NewestRowsFirst(OwnedBy(table, u))

\* {podcasts.length === 0 ? <p>You haven't created any podcasts yet.</p> : <table>}
EmptyState == jAt = "Dashboard" /\ ~jLoading /\ Len(jList) = 0

\* fetchUserPodcasts to its end: setPodcasts(data || []) or the error message;
\* finally setLoading(false).
FetchUserPodcasts ==
  /\ jAt = "Dashboard"
  /\ jLoading
  /\ \E ok \in BOOLEAN :
       /\ jList' = IF ok THEN SelectOwnPodcasts(jPodcasts, jUser) ELSE jList
       /\ jError' = ~ok
  /\ jLoading' = FALSE
  /\ UNCHANGED <<jUser, jPodcasts, jAt, jSub, jFormError, jCreated, jOwnedAtStart>>
  /\ UNCHANGED notJourney

\* <Link to="/dashboard/podcasts/new">: CreatePodcast is mounted.
GotoCreatePodcast ==
  /\ jAt = "Dashboard"
  /\ ~jLoading
  /\ jAt' = "CreatePodcast"
  /\ jFormError' = FALSE
  /\ UNCHANGED <<jUser, jPodcasts, jLoading, jError, jList, jSub, jCreated, jOwnedAtStart>>
  /\ UNCHANGED notJourney

\* handleSubmit(onSubmit): invalid values show field errors; valid ones start
\* onSubmit, which with no cover image goes straight to the insert.
SubmitPodcast ==
  /\ jAt = "CreatePodcast"
  /\ jSub = NoTitle
  /\ Len(jCreated) < MaxCreates
  /\ \E title \in Titles, descLen \in DescriptionLengths :
       IF SchemaAccepts(title, descLen)
         THEN jSub' = title /\ jFormError' = FALSE
         ELSE jSub' = jSub /\ jFormError' = TRUE
  /\ UNCHANGED <<jUser, jPodcasts, jAt, jLoading, jError, jList, jCreated, jOwnedAtStart>>
  /\ UNCHANGED notJourney

\* The insert { title, description, cover_image_url: null, author_id: user.id }
\* resolves: the policy WITH CHECK (auth.uid() = author_id) admits it and the
\* form navigates to the new podcast's episodes page, or the request fails and
\* the error banner is set.
InsertPodcastResolve ==
  /\ jSub # NoTitle
  /\ \E ok \in BOOLEAN :
       IF ok
         THEN /\ jPodcasts' = jPodcasts \cup
                   {[id |-> Cardinality(jPodcasts) + 1, title |-> jSub, author_id |-> jUser]}
              /\ jCreated' = Append(jCreated, jSub)
              /\ jAt' = "PodcastEpisodes"
              /\ UNCHANGED jFormError
         ELSE /\ jFormError' = TRUE
              /\ UNCHANGED <<jPodcasts, jCreated, jAt>>
  /\ jSub' = NoTitle
  /\ UNCHANGED <<jUser, jLoading, jError, jList, jOwnedAtStart>>
  /\ UNCHANGED notJourney

\* Back to /dashboard (link, Cancel button or the header): a fresh Dashboard
\* is mounted and runs its fetch.
GotoDashboard ==
  /\ jAt \in {"CreatePodcast", "PodcastEpisodes"}
  /\ jSub = NoTitle
  /\ jAt' = "Dashboard"
  /\ jLoading' = TRUE
  /\ jError' = FALSE
  /\ jList' = <<>>
  /\ UNCHANGED <<jUser, jPodcasts, jSub, jFormError, jCreated, jOwnedAtStart>>
  /\ UNCHANGED notJourney

\* The dashboard has just been mounted for a user who owns no podcast or one;
\* another author's podcast exists.
JourneyInit ==
  /\ jUser \in Users
  /\ jOwnedAtStart \in {0, 1}
  /\ jPodcasts = {[id |-> 1, title |-> "Theirs", author_id |-> CHOOSE u \in Users : u # jUser]}
                   \cup (IF jOwnedAtStart = 1
                           THEN {[id |-> 2, title |-> "Old Show", author_id |-> jUser]}
                           ELSE {})
  /\ jAt = "Dashboard"
  /\ jLoading = TRUE
  /\ jError = FALSE
  /\ jList = <<>>
  /\ jSub = NoTitle
  /\ jFormError = FALSE
  /\ jCreated = <<>>

JourneyIdle ==
  /\ jUser = "u1"
  /\ jOwnedAtStart = 0
  /\ jPodcasts = {}
  /\ jAt = "Dashboard"
  /\ jLoading = TRUE
  /\ jError = FALSE
  /\ jList = <<>>
  /\ jSub = NoTitle
  /\ jFormError = FALSE
  /\ jCreated = <<>>

JourneyNext ==
  \/ FetchUserPodcasts
  \/ GotoCreatePodcast
  \/ SubmitPodcast
  \/ InsertPodcastResolve
  \/ GotoDashboard

(***************************************************************************)
(* The fetch a page runs on mount: Home.fetchPodcasts,                     *)
(* PodcastDetail.fetchPodcastDetails, EpisodePlayer.fetchEpisodeDetails,   *)
(* Dashboard.fetchUserPodcasts, PodcastEpisodes.fetchPodcastAndEpisodes,   *)
(* CreateEpisode.fetchPodcast, Favorites.fetchFavorites and the fetch of   *)
(* Subscriptions.  Runs of one page's effect do not overlap here.          *)
(***************************************************************************)
MaxRuns == 2

FetchPages == {"Home", "PodcastDetail", "EpisodePlayer", "Dashboard", "PodcastEpisodes",
               "CreateEpisode", "Favorites", "Subscriptions"}

\* if (!user) { navigate('/login'); return; } at the top of the effect.
RedirectsWithoutUser(page) ==
  page \in {"Dashboard", "PodcastEpisodes", "CreateEpisode", "Favorites", "Subscriptions"}

\* The effect's dependency list names the user (and the route id).
DependsOnUser(page) == page # "Home"

\* The .single() look-ups of the (user, target) row.
StatusChecks == {"favorite?", "subscription?"}

Queries_NoUserGuard(page, u) ==
  CASE page = "PodcastDetail" -> <<"podcast", "episodes", "subscription?">>
    [] page = "EpisodePlayer" -> <<"episode", "podcast", "favorite?">>
    [] OTHER -> <<"podcasts">>

\* The queries a run issues when none fails, in order.
Queries(page, u) ==
  CASE page = "Home" -> <<"podcasts">>
    [] page = "Dashboard" -> <<"podcasts">>
    [] page = "Favorites" -> <<"favorites">>
    [] page = "Subscriptions" -> <<"subscriptions">>
    [] page = "CreateEpisode" -> <<"podcast">>
    [] page = "PodcastEpisodes" -> <<"podcast", "episodes">>
    [] page = "PodcastDetail" ->
         <<"podcast", "episodes">> \o (IF u # NoUser THEN <<"subscription?">> ELSE <<>>)
    [] page = "EpisodePlayer" ->
         <<"episode", "podcast">> \o (IF u # NoUser THEN <<"favorite?">> ELSE <<>>)

\* if (data.author_id !== user.id) { navigate('/dashboard'); return; }
VerifiesOwnership(page) == page \in {"PodcastEpisodes", "CreateEpisode"}

\* CreateEpisode has no `loading` state and no finally block.
HasLoading(page) == page # "CreateEpisode"

\* finally { setLoading(false) }
Finally(page) == IF HasLoading(page) THEN FALSE ELSE fLoading

\* ---- what the page renders ----
ShowsSpinner ==
  IF fPage = "CreateEpisode" THEN "podcast" \notin fGot ELSE fLoading

\* The early return that replaces the page by an error box.
ErrorView ==
  /\ ~ShowsSpinner
  /\ \/ fPage = "Home" /\ fError
     \/ fPage \in {"PodcastDetail", "PodcastEpisodes"} /\ (fError \/ "podcast" \notin fGot)
     \/ fPage = "EpisodePlayer" /\ (fError \/ "episode" \notin fGot \/ "podcast" \notin fGot)

\* The page's content is on screen (Dashboard, Favorites, Subscriptions and
\* CreateEpisode put an error banner above it).
ShowsContent == ~ShowsSpinner /\ ~ErrorView

\* The `error` text is on screen, in the error box or in the banner.
ShowsErrorMessage == ~ShowsSpinner /\ fError

\* The effect body up to its first await.
FetchEffect ==
  /\ fPc = "mount"
  /\ IF RedirectsWithoutUser(fPage) /\ fUser = NoUser
       THEN /\ fNav' = "/login"
            /\ fPc' = "done"
            /\ UNCHANGED <<fAt, fQueries>>
       ELSE /\ fPc' = "await"
            /\ fAt' = 1
            /\ fQueries' = <<Queries(fPage, fUser)[1]>>
            /\ UNCHANGED fNav
  /\ UNCHANGED <<fPage, fUser, fOwner, fRow, fLoading, fError, fGot, fFlag, fLogged,
                 fFailed, fRuns>>
  /\ UNCHANGED notFetch

\* The awaited query resolves without an error to throw: its result is
\* stored and the next query is sent.  A status check that finds no row
\* resolves with code PGRST116, which is not thrown.
QueryResolves ==
  /\ fPc = "await"
  /\ LET qs == Queries(fPage, fUser)
         q == qs[fAt]
         notOwner == VerifiesOwnership(fPage) /\ fAt = 1 /\ ~fOwner
         last == fAt = Len(qs)
     IN  /\ fNav' = IF notOwner THEN "/dashboard" ELSE fNav
         /\ fGot' = IF notOwner \/ q \in StatusChecks THEN fGot ELSE fGot \cup {q}
         /\ fFlag' = IF q \in StatusChecks THEN fRow ELSE fFlag
         /\ IF notOwner \/ last
              THEN /\ fPc' = "done"
                   /\ fLoading' = Finally(fPage)
                   /\ UNCHANGED <<fAt, fQueries>>
              ELSE /\ fAt' = fAt + 1
                   /\ fQueries' = Append(fQueries, qs[fAt + 1])
                   /\ UNCHANGED <<fPc, fLoading>>
  /\ UNCHANGED <<fPage, fUser, fOwner, fRow, fError, fLogged, fFailed, fRuns>>
  /\ UNCHANGED notFetch

\* The awaited query resolves with an error that is thrown (for a status
\* check: any code but PGRST116): catch logs and sets `error`, finally runs.
QueryFails ==
  /\ fPc = "await"
  /\ fLogged' = TRUE
  /\ fError' = TRUE
  /\ fLoading' = Finally(fPage)
  /\ fFailed' = Queries(fPage, fUser)[fAt]
  /\ fPc' = "done"
  /\ UNCHANGED <<fPage, fUser, fOwner, fRow, fAt, fGot, fFlag, fNav, fQueries, fRuns>>
  /\ UNCHANGED notFetch

\* A dependency of the effect changes while the page stays mounted (the
\* user signs in or out, or the route id changes): the effect runs again.
\* No state is reset.
FetchRerun ==
  /\ fPc = "done"
  /\ fNav = "none"
  /\ DependsOnUser(fPage)
  /\ fRuns < MaxRuns
  /\ fUser' \in {NoUser, "u1"}
  /\ fRow' \in IF fUser' = NoUser THEN {FALSE} ELSE BOOLEAN
  /\ fOwner' \in IF fUser' = NoUser THEN {FALSE} ELSE BOOLEAN
  /\ fPc' = "mount"
  /\ fQueries' = <<>>
  /\ fLogged' = FALSE
  /\ fFailed' = "none"
  /\ fRuns' = fRuns + 1
  /\ UNCHANGED <<fPage, fAt, fLoading, fError, fGot, fFlag, fNav>>
  /\ UNCHANGED notFetch

FetchInit ==
  /\ fPage \in FetchPages
  /\ fUser \in {NoUser, "u1"}
  /\ fOwner \in IF fUser = NoUser THEN {FALSE} ELSE BOOLEAN
  /\ fRow \in IF fUser = NoUser THEN {FALSE} ELSE BOOLEAN
  /\ fPc = "mount"
  /\ fAt = 0
  /\ fLoading = TRUE
  /\ fError = FALSE
  /\ fGot = {}
  /\ fFlag = FALSE
  /\ fNav = "none"
  /\ fQueries = <<>>
  /\ fLogged = FALSE
  /\ fFailed = "none"
  /\ fRuns = 1

\* No page is fetching.
FetchIdle ==
  /\ fPage = "Home"
  /\ fUser = NoUser
  /\ fOwner = FALSE
  /\ fRow = FALSE
  /\ fPc = "done"
  /\ fAt = 0
  /\ fLoading = FALSE
  /\ fError = FALSE
  /\ fGot = {}
  /\ fFlag = FALSE
  /\ fNav = "none"
  /\ fQueries = <<>>
  /\ fLogged = FALSE
  /\ fFailed = "none"
  /\ fRuns = 0

FetchNext ==
  \/ FetchEffect
  \/ QueryResolves
  \/ QueryFails
  \/ FetchRerun

(***************************************************************************)
(* The data store: the tables podcasts, episodes, subscriptions and        *)
(* favorites with their primary keys, foreign keys (ON DELETE CASCADE) and *)
(* UNIQUE constraints.  Statements arrive from any client in any order.    *)
(***************************************************************************)
MaxIds == 4
Ids == 1..MaxIds

\* REFERENCES podcasts(id)
PodcastExists(podcasts, pid) == \E p \in podcasts : p.id = pid
\* REFERENCES episodes(id)
EpisodeExists(eps, eid) == \E e \in eps : e.id = eid

\* What a statement did: accepted or rejected, and how many rows of each
\* dependent table went with a delete.
SqlOutcome(stmt, ok, eps, subs, favs) ==
  [stmt |-> stmt, ok |-> ok, episodes |-> eps, subscriptions |-> subs, favorites |-> favs]

PairFree_Always(table, row, key) == TRUE

\* UNIQUE(user_id, podcast_id) / UNIQUE(user_id, episode_id): no row of the
\* table has the new row's user and target.
PairFree(table, row, key) ==
  ~\E r \in table : r.user_id = row.user_id /\ r[key] = row[key]

\* INSERT INTO podcasts: always accepted, with a fresh id.
SqlInsertPodcast ==
  /\ sqlNextId < MaxIds
  /\ \E u \in Users :
       sqlPodcasts' = sqlPodcasts \cup {[id |-> sqlNextId + 1, author_id |-> u]}
  /\ sqlNextId' = sqlNextId + 1
  /\ sqlLast' = SqlOutcome("insert podcast", TRUE, 0, 0, 0)
  /\ UNCHANGED <<sqlEpisodes, sqlSubscriptions, sqlFavorites>>
  /\ UNCHANGED notSchema

\* INSERT INTO episodes: rejected unless podcast_id names a podcast.
SqlInsertEpisode ==
  /\ sqlNextId < MaxIds
  /\ \E pid \in Ids :
       sqlEpisodes' = IF PodcastExists(sqlPodcasts, pid)
                        THEN sqlEpisodes \cup {[id |-> sqlNextId + 1, podcast_id |-> pid]}
                        ELSE sqlEpisodes
  /\ sqlNextId' = sqlNextId + 1
  /\ sqlLast' = SqlOutcome("insert episode", sqlEpisodes' # sqlEpisodes, 0, 0, 0)
  /\ UNCHANGED <<sqlPodcasts, sqlSubscriptions, sqlFavorites>>
  /\ UNCHANGED notSchema

\* INSERT INTO subscriptions: rejected unless podcast_id names a podcast and
\* the (user_id, podcast_id) pair is new.
SqlInsertSubscription ==
  /\ sqlNextId < MaxIds
  /\ \E u \in Users, pid \in Ids :
       LET row == [id |-> sqlNextId + 1, user_id |-> u, podcast_id |-> pid] IN
       sqlSubscriptions' =
         IF PodcastExists(sqlPodcasts, pid) /\ PairFree(sqlSubscriptions, row, "podcast_id")
           THEN sqlSubscriptions \cup {row}
           ELSE sqlSubscriptions
  /\ sqlNextId' = sqlNextId + 1
  /\ sqlLast' = SqlOutcome("insert subscription", sqlSubscriptions' # sqlSubscriptions, 0, 0, 0)
  /\ UNCHANGED <<sqlPodcasts, sqlEpisodes, sqlFavorites>>
  /\ UNCHANGED notSchema

\* INSERT INTO favorites: rejected unless episode_id names an episode and the
\* (user_id, episode_id) pair is new.
SqlInsertFavorite ==
  /\ sqlNextId < MaxIds
  /\ \E u \in Users, eid \in Ids :
       LET row == [id |-> sqlNextId + 1, user_id |-> u, episode_id |-> eid] IN
       sqlFavorites' =
         IF EpisodeExists(sqlEpisodes, eid) /\ PairFree(sqlFavorites, row, "episode_id")
           THEN sqlFavorites \cup {row}
           ELSE sqlFavorites
  /\ sqlNextId' = sqlNextId + 1
  /\ sqlLast' = SqlOutcome("insert favorite", sqlFavorites' # sqlFavorites, 0, 0, 0)
  /\ UNCHANGED <<sqlPodcasts, sqlEpisodes, sqlSubscriptions>>
  /\ UNCHANGED notSchema

\* ON DELETE CASCADE from episodes to favorites
FavoritesWithout(favs, gone) == {f \in favs : f.episode_id \notin {e.id : e \in gone}}

\* DELETE FROM podcasts WHERE id = pid: the podcast's episodes, their
\* favorites and the podcast's subscriptions go with it.
SqlDeletePodcast ==
  /\ \E p \in sqlPodcasts :
       LET gone == {e \in sqlEpisodes : e.podcast_id = p.id} IN
       /\ sqlPodcasts' = sqlPodcasts \ {p}
       /\ sqlEpisodes' = sqlEpisodes \ gone
       /\ sqlFavorites' = FavoritesWithout(sqlFavorites, gone)
       /\ sqlSubscriptions' = {b \in sqlSubscriptions : b.podcast_id # p.id}
       /\ sqlLast' = SqlOutcome("delete podcast", TRUE, Cardinality(gone),
                                Cardinality(sqlSubscriptions \ sqlSubscriptions'),
                                Cardinality(sqlFavorites \ sqlFavorites'))
  /\ UNCHANGED sqlNextId
  /\ UNCHANGED notSchema

\* DELETE FROM episodes WHERE id = eid: its favorites go with it.
SqlDeleteEpisode ==
  /\ \E e \in sqlEpisodes :
       /\ sqlEpisodes' = sqlEpisodes \ {e}
       /\ sqlFavorites' = FavoritesWithout(sqlFavorites, {e})
       /\ sqlLast' = SqlOutcome("delete episode", TRUE, 0, 0,
                                Cardinality(sqlFavorites \ sqlFavorites'))
  /\ UNCHANGED <<sqlPodcasts, sqlSubscriptions, sqlNextId>>
  /\ UNCHANGED notSchema

\* DELETE FROM subscriptions / favorites of one row.
SqlDeleteSubscription ==
  /\ \E b \in sqlSubscriptions : sqlSubscriptions' = sqlSubscriptions \ {b}
  /\ sqlLast' = SqlOutcome("delete subscription", TRUE, 0, 0, 0)
  /\ UNCHANGED <<sqlPodcasts, sqlEpisodes, sqlFavorites, sqlNextId>>
  /\ UNCHANGED notSchema

SqlDeleteFavorite ==
  /\ \E f \in sqlFavorites : sqlFavorites' = sqlFavorites \ {f}
  /\ sqlLast' = SqlOutcome("delete favorite", TRUE, 0, 0, 0)
  /\ UNCHANGED <<sqlPodcasts, sqlEpisodes, sqlSubscriptions, sqlNextId>>
  /\ UNCHANGED notSchema

\* The tables as the migration creates them: empty.
SchemaInit ==
  /\ sqlPodcasts = {}
  /\ sqlEpisodes = {}
  /\ sqlSubscriptions = {}
  /\ sqlFavorites = {}
  /\ sqlNextId = 0
  /\ sqlLast = SqlOutcome("none", TRUE, 0, 0, 0)

SchemaIdle == SchemaInit

SchemaNext ==
  \/ SqlInsertPodcast
  \/ SqlInsertEpisode
  \/ SqlInsertSubscription
  \/ SqlInsertFavorite
  \/ SqlDeletePodcast
  \/ SqlDeleteEpisode
  \/ SqlDeleteSubscription
  \/ SqlDeleteFavorite

(***************************************************************************)
(* The creator pages CreateEpisode and PodcastEpisodes: the effect that    *)
(* fetches the route's podcast and verifies ownership, and the requests    *)
(* the pages issue afterwards.  The pages sit behind ProtectedRoute, so a  *)
(* mounted page has a user; signing out unmounts it, and a later sign-in   *)
(* mounts a new instance.  The route id may change while the page stays    *)
(* mounted (history navigation); no run of the effect is cancelled.        *)
(***************************************************************************)
MaxVisits == 3
NoPodcastRow == "none"

OwnershipVerified_Skipped(pid, u) == TRUE

\* data.author_id !== user.id, negated
OwnershipVerified(pid, u) == AuthorOf[pid] = u

\* A state setter of an unmounted page changes nothing.
GSet(cur, new) == IF gMounted THEN new ELSE cur

\* CreateEpisode: `if (!podcast)` renders the spinner, else the form (the
\* error text is a banner above it).
RendersForm == gMounted /\ gPage = "CreateEpisode" /\ gPodcast # NoPodcastRow

\* PodcastEpisodes: spinner while loading, error box on error or no podcast,
\* else the episode list.
RendersList ==
  gMounted /\ gPage = "PodcastEpisodes" /\ ~gLoading /\ ~gError /\ gPodcast # NoPodcastRow

\* The podcast query of a run resolves: error -> catch; a row of another
\* author -> navigate('/dashboard') and return; the user's row -> setPodcast
\* and, in PodcastEpisodes, the episodes query for the same id.
PodcastRowResolve ==
  /\ \E r \in gReqs, ok \in BOOLEAN :
       /\ r.stage = "podcast"
       /\ IF ~ok
            THEN /\ gError' = GSet(gError, TRUE)
                 /\ gLoading' = IF gPage = "PodcastEpisodes" THEN GSet(gLoading, FALSE) ELSE gLoading
                 /\ gReqs' = gReqs \ {r}
                 /\ UNCHANGED <<gPodcast, gNav, gMounted, gIssued, gForeign>>
            ELSE IF ~OwnershipVerified(r.id, r.user)
              THEN /\ gNav' = "/dashboard"
                   /\ gMounted' = FALSE
                   /\ gForeign' = TRUE
                   /\ gReqs' = gReqs \ {r}
                   /\ UNCHANGED <<gPodcast, gError, gLoading, gIssued>>
              ELSE /\ gPodcast' = GSet(gPodcast, r.id)
                   /\ IF gPage = "PodcastEpisodes"
                        THEN /\ gReqs' = (gReqs \ {r}) \cup {[r EXCEPT !.stage = "episodes"]}
                             /\ gIssued' = gIssued \cup
                                  {[op |-> "select episodes", podcast |-> r.id, user |-> r.user]}
                        ELSE /\ gReqs' = gReqs \ {r}
                             /\ UNCHANGED gIssued
                   /\ UNCHANGED <<gError, gLoading, gNav, gMounted, gForeign>>
  /\ UNCHANGED <<gPage, gUser, gId, gEpisodes, gRuns>>
  /\ UNCHANGED notGuard

\* The episodes query resolves: setEpisodes or catch, then finally.
EpisodesResolve ==
  /\ \E r \in gReqs, ok \in BOOLEAN :
       /\ r.stage = "episodes"
       /\ gReqs' = gReqs \ {r}
       /\ gEpisodes' = IF ok THEN GSet(gEpisodes, r.id) ELSE gEpisodes
       /\ gError' = IF ok THEN gError ELSE GSet(gError, TRUE)
       /\ gLoading' = GSet(gLoading, FALSE)
  /\ UNCHANGED <<gPage, gUser, gId, gMounted, gPodcast, gNav, gIssued, gForeign, gRuns>>
  /\ UNCHANGED notGuard

\* The route id changes while the page stays mounted: the effect runs again
\* with the new id; no state is reset.
CreatorRouteChange ==
  /\ gMounted
  /\ gRuns < MaxVisits
  /\ \E id \in PodcastIds \ {gId} :
       /\ gId' = id
       /\ gReqs' = gReqs \cup {[id |-> id, user |-> gUser, stage |-> "podcast"]}
  /\ gRuns' = gRuns + 1
  /\ UNCHANGED <<gPage, gUser, gMounted, gPodcast, gEpisodes, gLoading, gError, gNav,
                 gIssued, gForeign>>
  /\ UNCHANGED notGuard

\* The user signs out: ProtectedRoute replaces the page by the login redirect.
CreatorSignOut ==
  /\ gMounted
  /\ gUser' = NoUser
  /\ gMounted' = FALSE
  /\ gNav' = "/login"
  /\ UNCHANGED <<gPage, gId, gPodcast, gEpisodes, gLoading, gError, gReqs, gIssued,
                 gForeign, gRuns>>
  /\ UNCHANGED notGuard

\* CreateEpisode.onSubmit with a file selected, as far as its targets go: the
\* upload goes to `${podcast.id}/...`, the insert carries podcast_id:
\* podcast.id and passes the insert policy only for the podcast's author;
\* after an accepted insert the page navigates to the episode list.
CreatorSubmit ==
  /\ RendersForm
  /\ gUser # NoUser
  /\ \E outcome \in {"uploadError", "insertError", "ok"} :
       /\ outcome = "ok" => AuthorOf[gPodcast] = gUser
       /\ gIssued' = gIssued
                      \cup {[op |-> "upload", podcast |-> gPodcast, user |-> gUser]}
                      \cup (IF outcome = "uploadError" THEN {}
                            ELSE {[op |-> "insert episode", podcast |-> gPodcast, user |-> gUser]})
       /\ gError' = (outcome # "ok")
       /\ gNav' = IF outcome = "ok" THEN "/episodes" ELSE gNav
       /\ gMounted' = (outcome # "ok")
  /\ UNCHANGED <<gPage, gUser, gId, gPodcast, gEpisodes, gLoading, gReqs, gForeign, gRuns>>
  /\ UNCHANGED notGuard

\* A creator page just mounted for a signed-in user: the effect has sent the
\* podcast query.
GuardInit ==
  /\ gPage \in {"CreateEpisode", "PodcastEpisodes"}
  /\ gUser \in Users
  /\ gId \in PodcastIds
  /\ gMounted = TRUE
  /\ gPodcast = NoPodcastRow
  /\ gEpisodes = NoPodcastRow
  /\ gLoading = (gPage = "PodcastEpisodes")
  /\ gError = FALSE
  /\ gReqs = {[id |-> gId, user |-> gUser, stage |-> "podcast"]}
  /\ gNav = "none"
  /\ gIssued = {}
  /\ gForeign = FALSE
  /\ gRuns = 1

\* No creator page is mounted.
GuardIdle ==
  /\ gPage = "CreateEpisode"
  /\ gUser = NoUser
  /\ gId = "p1"
  /\ gMounted = FALSE
  /\ gPodcast = NoPodcastRow
  /\ gEpisodes = NoPodcastRow
  /\ gLoading = FALSE
  /\ gError = FALSE
  /\ gReqs = {}
  /\ gNav = "none"
  /\ gIssued = {}
  /\ gForeign = FALSE
  /\ gRuns = 0

GuardNext ==
  \/ PodcastRowResolve
  \/ EpisodesResolve
  \/ CreatorRouteChange
  \/ CreatorSignOut
  \/ CreatorSubmit

vars == <<authVars, toggleVars, dashVars, uploadVars, playerVars, fetchVars, journeyVars,
          schemaVars, guardVars>>

InitAuth ==
  AuthInit /\ ToggleIdle /\ DashIdle /\ UploadIdle /\ PlayerIdle /\ FetchIdle /\ JourneyIdle /\ SchemaIdle /\ GuardIdle

SpecAuth == InitAuth /\ [][AuthNext]_vars

InitToggle ==
  ToggleInit /\ AuthIdle /\ DashIdle /\ UploadIdle /\ PlayerIdle /\ FetchIdle /\ JourneyIdle /\ SchemaIdle /\ GuardIdle

SpecToggle == InitToggle /\ [][ToggleNext]_vars

InitDash ==
  DashInit /\ AuthIdle /\ ToggleIdle /\ UploadIdle /\ PlayerIdle /\ FetchIdle /\ JourneyIdle /\ SchemaIdle /\ GuardIdle

SpecDash == InitDash /\ [][DashNext]_vars

InitDelete ==
  DeleteInit /\ AuthIdle /\ ToggleIdle /\ UploadIdle /\ PlayerIdle /\ FetchIdle /\ JourneyIdle /\ SchemaIdle /\ GuardIdle

SpecDelete == InitDelete /\ [][DeleteNext]_vars

InitUpload ==
  UploadInit /\ AuthIdle /\ ToggleIdle /\ DashIdle /\ PlayerIdle /\ FetchIdle /\ JourneyIdle /\ SchemaIdle /\ GuardIdle

SpecUpload == InitUpload /\ [][UploadNext]_vars

\* The submissions alone, from a form whose on-mount requests are over and
\* whose file input holds nothing or an accepted file, with every request
\* answered: the audio element fires loadedmetadata or error, and storage
\* and the store resolve each call.
SubmitInit ==
  /\ uPage \in {"CreateEpisode", "CreatePodcast"}
  /\ uUser \in Users
  /\ podcast = (uPage = "CreateEpisode")
  /\ audioFile \in IF uPage = "CreateEpisode"
                     THEN {f \in Files : AudioCheck(f) = NoError} \cup {NoFile}
                     ELSE {NoFile}
  /\ coverImage \in IF uPage = "CreatePodcast"
                      THEN {f \in Files : ImageCheck(f) = NoError} \cup {NoFile}
                      ELSE {NoFile}
  /\ coverImagePreview = coverImage
  /\ bucketReady \in IF uPage = "CreatePodcast" THEN BOOLEAN ELSE {FALSE}
  /\ bucketCheck = FALSE
  /\ formError = NoError
  /\ isUploading = FALSE
  /\ uploadProgress = 0
  /\ sub = IdleSub
  /\ lastUpload = NoUpload
  /\ lastInsert = NoInsert
  /\ navigated = FALSE
  /\ subDone = NoSubDone
  /\ audioBucket = BucketCheckOff

SubmitNext ==
  \/ EpisodeOnSubmit
  \/ EpisodeDurationResolve
  \/ AudioErrorAfterMetadata
  \/ EpisodeUploadProgress
  \/ EpisodeUploadResolve
  \/ EpisodeInsertResolve
  \/ PodcastOnSubmit
  \/ PodcastUploadResolve
  \/ PodcastInsertResolve

InitSubmit ==
  SubmitInit /\ AuthIdle /\ ToggleIdle /\ DashIdle /\ PlayerIdle /\ FetchIdle /\ JourneyIdle /\ SchemaIdle /\ GuardIdle

SpecSubmit ==
  /\ InitSubmit
  /\ [][SubmitNext]_vars
  /\ WF_vars(EpisodeDurationResolve)
  /\ WF_vars(EpisodeUploadResolve)
  /\ WF_vars(EpisodeInsertResolve)
  /\ WF_vars(PodcastUploadResolve)
  /\ WF_vars(PodcastInsertResolve)

InitBucket ==
  BucketInit /\ AuthIdle /\ ToggleIdle /\ DashIdle /\ PlayerIdle /\ FetchIdle /\ JourneyIdle /\ SchemaIdle /\ GuardIdle

SpecBucket == InitBucket /\ [][BucketNext]_vars

InitPlayer ==
  PlayerInit /\ AuthIdle /\ ToggleIdle /\ DashIdle /\ UploadIdle /\ FetchIdle /\ JourneyIdle /\ SchemaIdle /\ GuardIdle

SpecPlayer == InitPlayer /\ [][PlayerNext]_vars

InitLoad ==
  PlayerInit /\ AuthIdle /\ ToggleIdle /\ DashIdle /\ UploadIdle /\ FetchIdle /\ JourneyIdle /\ SchemaIdle /\ GuardIdle

SpecLoad == InitLoad /\ [][LoadNext]_vars

InitJourney ==
  JourneyInit /\ AuthIdle /\ ToggleIdle /\ DashIdle /\ UploadIdle /\ PlayerIdle /\ FetchIdle /\ SchemaIdle /\ GuardIdle

SpecJourney == InitJourney /\ [][JourneyNext]_vars

InitSchema ==
  SchemaInit /\ AuthIdle /\ ToggleIdle /\ DashIdle /\ UploadIdle /\ PlayerIdle /\ FetchIdle /\ JourneyIdle /\ GuardIdle

SpecSchema == InitSchema /\ [][SchemaNext]_vars

InitGuard ==
  GuardInit /\ AuthIdle /\ ToggleIdle /\ DashIdle /\ UploadIdle /\ PlayerIdle /\ FetchIdle /\ JourneyIdle /\ SchemaIdle

SpecGuard == InitGuard /\ [][GuardNext]_vars

InitFetch ==
  FetchInit /\ AuthIdle /\ ToggleIdle /\ DashIdle /\ UploadIdle /\ PlayerIdle /\ JourneyIdle /\ SchemaIdle /\ GuardIdle

SpecFetch == InitFetch /\ [][FetchNext]_vars

C2_TwiceRestores ==
  (gh.n = 2 /\ calls = {} /\ gh.ok1 /\ gh.ok2) => Snapshot = gh.pre2

(***************************************************************************)
(* C2 (supporting): the round trip does hold from a state in which the     *)
(* flag agrees with the existence of the join row.                         *)
(***************************************************************************)
C2_TwiceRestores_WhenInSync ==
  (/\ gh.n = 2 /\ calls = {}
   /\ gh.ok1 /\ gh.ok2
   /\ gh.pre2.flag = gh.pre2.row)
    => Snapshot = gh.pre2

\* favorite, then unfavorite, both accepted: no join row is left.
C2_InSync_Witness ==
  /\ tPage = "EpisodePlayer"
  /\ gh.n = 2 /\ calls = {}
  /\ gh.ok1 /\ gh.ok2
  /\ gh.pre2 = [flag |-> FALSE, row |-> FALSE]
  /\ gh.pre1 = [flag |-> TRUE, row |-> TRUE]
  /\ ~flag /\ tUser \notin rows

(***************************************************************************)
(* C3: a handleDeletePodcast(p) the store accepted leaves p out of the     *)
(* dashboard list, and no step removes from the store a podcast whose      *)
(* author is not the caller of a delete of exactly that row.               *)
(***************************************************************************)
C3_DeleteOwnOnly ==
  /\ [](lastDel.res = "ok" => lastDel.pid \notin Range(dashList))
  /\ [][\A p \in dbPodcasts \ dbPodcasts' :
          \E d \in dels : d.pid = p /\ d.caller = AuthorOf[p]]_vars

\* u2's session deleted a row of u1 still listed after the user changed: the
\* store kept it, the list dropped it, and u2's own podcast is untouched.
C3_Witness ==
  /\ lastDel = [pid |-> "p1", res |-> "ok", alert |-> FALSE]
  /\ dUser = "u2"
  /\ "p1" \in dbPodcasts /\ "p1" \notin Range(dashList)
  /\ "p3" \in dbPodcasts

(***************************************************************************)
(* C4: the audio file in CreateEpisode's state is absent or has a type     *)
(* starting with 'audio/' and at most 100*1024*1024 bytes, and every       *)
(* upload to 'podcast-audio' carries such a file (never no file).          *)
(***************************************************************************)
ValidAudio(file) == StartsWith(file.type, AudioPrefix) /\ file.size <= 100 * 1024 * 1024

C4_AudioFileValid ==
  /\ (audioFile = NoFile \/ ValidAudio(audioFile))
  /\ (lastUpload.bucket = "podcast-audio" =>
        lastUpload.file # NoFile /\ ValidAudio(lastUpload.file))

\* An upload of a file of exactly 100MB has been issued.
C4_Witness ==
  /\ lastUpload.bucket = "podcast-audio"
  /\ lastUpload.file = [type |-> AudioMpeg, size |-> 104857600]
  /\ audioFile = lastUpload.file

(***************************************************************************)
(* C5: every episode record the store accepted carries a positive          *)
(* duration (seconds).                                                     *)
(***************************************************************************)
C5_DurationPositive ==
  lastInsert.table = "episodes" => lastInsert.duration > 0

(***************************************************************************)
(* C6: the cover image in CreatePodcast's state is absent or has a type    *)
(* starting with 'image/' and at most 5*1024*1024 bytes, and every upload  *)
(* to 'podcast-covers' carries such a file.                                *)
(***************************************************************************)
ValidImage(file) == StartsWith(file.type, ImagePrefix) /\ file.size <= 5 * 1024 * 1024

C6_CoverImageValid ==
  /\ (coverImage = NoFile \/ ValidImage(coverImage))
  /\ (lastUpload.bucket = "podcast-covers" =>
        lastUpload.file # NoFile /\ ValidImage(lastUpload.file))

\* An upload of a cover of exactly 5MB has been issued.
C6_Witness ==
  /\ lastUpload.bucket = "podcast-covers"
  /\ lastUpload.file = [type |-> ImagePng, size |-> 5242880]
  /\ coverImage = lastUpload.file

(***************************************************************************)
(* C7: once every load has completed, the player holds a loaded engine     *)
(* bound to the displayed episode, and one engine was constructed for each *)
(* load that set the episode; no more engines than such loads ever exist.  *)
(***************************************************************************)
C7_OneEnginePerLoad ==
  /\ created <= okLoads
  /\ (pMounted /\ loads = {} /\ episode # NoEpisode) =>
       /\ playerRef.made
       /\ playerRef.state = "loaded"
       /\ playerRef.src = episode
       /\ created = okLoads

(***************************************************************************)
(* C8: after the pause, stop or end handler or a teardown has run, and     *)
(* until the next handler runs, no animation-frame callback is pending.    *)
(***************************************************************************)
C8_PollingCancelled ==
  lastHandler \in {"pause", "stop", "end", "teardown"} => pending = {}

(***************************************************************************)
(* C9: in a mounted player, from the end-of-track handler until the next   *)
(* play or seek, isPlaying is false, the displayed position is zero and no *)
(* polling callback is pending.                                            *)
(***************************************************************************)
C9_EndResetsPosition ==
  (pMounted /\ sinceEnd) => (~isPlaying /\ currentTime = 0 /\ pending = {})

(***************************************************************************)
(* C10: every teardown of the load effect (unmount, change of id or of     *)
(* user) leaves no animation-frame callback pending and no loaded engine.  *)
(***************************************************************************)
C10_TeardownReleases ==
  [][(pMounted' # pMounted \/ loadRuns' # loadRuns) =>
       (pending' = {} /\ playerRef'.state # "loaded")]_vars

(***************************************************************************)
(* C11: on EpisodePlayer, every handleFavorite invocation sends exactly    *)
(* one store call (delete if isFavorite, insert if not) and leaves the     *)
(* flag and the rows alone; isFavorite changes only in the continuation of *)
(* a resolved call, to the opposite of the value the invocation read; the  *)
(* continuation of a failed call logs an error, changes no row and sends   *)
(* no further call.                                                        *)
(***************************************************************************)
C11_OneCallThenFlip ==
  [][tPage = "EpisodePlayer" =>
       /\ \A c \in calls' \ calls :
            c.stage = "sent" =>
              /\ calls' = calls \cup {c}
              /\ c.kind = FavoriteOp(flag)
              /\ flag' = flag /\ rows' = rows
       /\ flag' # flag => \E c \in calls \ calls' : c.stage # "sent"
       /\ \A c \in calls \ calls' :
            (c.stage # "sent" /\ calls' = calls \ {c}) =>
              /\ c.stage = "ok" => flag' = ~c.pre.flag
              /\ c.stage # "ok" => (tLogged' /\ rows' = rows)]_vars

(***************************************************************************)
(* C12: a run of EpisodePlayer's load queries the episode, then the        *)
(* podcast, then the favorites table, the last if and only if a user is    *)
(* present; after a run without failure isFavorite is true exactly when    *)
(* the store holds the (user, episode) row.                                *)
(***************************************************************************)
IsPrefix(a, b) == Len(a) <= Len(b) /\ \A i \in 1..Len(a) : a[i] = b[i]

LoadDone == fPc = "done" /\ fFailed = "none"

C12_QueryOrder ==
  /\ IsPrefix(fQueries, <<"episode", "podcast", "favorite?">>)
  /\ "favorite?" \in Range(fQueries) => fUser # NoUser
  /\ (LoadDone /\ fUser # NoUser) => "favorite?" \in Range(fQueries)
  /\ LoadDone => Len(fQueries) >= 2

C12_FlagIsRow ==
  fPage = "EpisodePlayer" =>
    /\ C12_QueryOrder
    /\ LoadDone => fFlag = (fUser # NoUser /\ fRow)

\* C12 as the code has it: the flag is the row after a run with a user, and
\* a run without a user leaves the flag as it was (false on a fresh mount).
C12_FlagIsRow_WithUser ==
  fPage = "EpisodePlayer" =>
    /\ C12_QueryOrder
    /\ (LoadDone /\ fUser # NoUser) => fFlag = fRow
    /\ (LoadDone /\ fUser = NoUser /\ fRuns = 1) => fFlag = FALSE

C12_Witness ==
  /\ fPage = "EpisodePlayer" /\ LoadDone /\ fUser # NoUser
  /\ fQueries = <<"episode", "podcast", "favorite?">>
  /\ fRow /\ fFlag

(***************************************************************************)
(* C13: a create submission that failed (bucket not ready, upload          *)
(* rejected, insert rejected) left an error message set, had issued no     *)
(* call after the failed one (so no insert after a failed upload, no       *)
(* repeated call) and did not navigate.                                    *)
(***************************************************************************)
SubFailures == {"storage", "upload", "insert"}

C13_FailureStops ==
  subDone.outcome \in SubFailures =>
    /\ subDone.error # NoError
    /\ ~subDone.navigated
    /\ subDone.outcome = "storage" => subDone.calls = <<>>
    /\ subDone.outcome = "upload" => subDone.calls = <<"upload">>
    /\ subDone.outcome = "insert" => subDone.calls \in {<<"insert">>, <<"upload", "insert">>}

C13_Witness ==
  /\ subDone.outcome = "insert" /\ subDone.calls = <<"upload", "insert">>
  /\ sub.pc = "idle" /\ formError = ErrInsert /\ ~navigated
  /\ lastUpload # NoUpload /\ lastInsert = NoInsert

(***************************************************************************)
(* C14: a create submission that succeeded went through its steps in the   *)
(* order upload issued, upload resolved, public URL obtained, insert       *)
(* issued, insert resolved, navigation (without a cover image: insert,     *)
(* then navigation); the record it inserted carries the public URL of the  *)
(* path uploaded in that submission (no URL without an upload); and the    *)
(* form has navigated only if its last submission succeeded.               *)
(***************************************************************************)
C14_StepOrder ==
  /\ navigated => subDone.outcome = "ok"
  /\ subDone.outcome = "ok" =>
       /\ navigated
       /\ subDone.steps \in {<<"upload", "uploaded", "url", "insert", "inserted", "navigate">>,
                             <<"insert", "inserted", "navigate">>}
       /\ IF subDone.steps[1] = "upload"
            THEN lastInsert.url = <<lastUpload.bucket, lastUpload.path>>
                 /\ lastInsert.file = lastUpload.file
            ELSE lastInsert.url = NoUrl /\ lastInsert.table = "podcasts"
       /\ lastInsert.table = "episodes" => subDone.steps[1] = "upload"

C14_Witness ==
  /\ subDone.outcome = "ok" /\ navigated
  /\ lastInsert.table = "episodes"
  /\ lastInsert.url[1] = "podcast-audio" /\ lastInsert.url[2] \in Paths
  /\ subDone.steps = <<"upload", "uploaded", "url", "insert", "inserted", "navigate">>

(***************************************************************************)
(* C15: when a delete handler of Dashboard or PodcastEpisodes resumes      *)
(* after the store rejected its delete, it leaves the local list as it is  *)
(* and shows an alert; when the user declines the confirmation, no delete  *)
(* is issued, no alert is shown, and list and store stay as they are.      *)
(***************************************************************************)
C15_RejectedOrDeclined ==
  [][
     /\ \A d \in dels \ dels' :
          (d.stage = "error" /\ dels' = dels \ {d}) =>
             /\ dashList' = dashList /\ episodes' = episodes
             /\ lastDel'.pid = d.pid /\ lastDel'.alert
     /\ (lastDel'.res = "declined" /\ lastDel' # lastDel) =>
             /\ dels' = dels
             /\ dashList' = dashList /\ episodes' = episodes
             /\ dbPodcasts' = dbPodcasts /\ dbEpisodes' = dbEpisodes
             /\ ~lastDel'.alert
    ]_vars

C15_Witness ==
  /\ dPage = "PodcastEpisodes"
  /\ lastDel = [pid |-> "e2", res |-> "error", alert |-> TRUE]
  /\ episodes = <<"e3", "e2", "e1">>
  /\ dbEpisodes = EpisodeIds

(***************************************************************************)
(* C16: once every delete issued from Dashboard or PodcastEpisodes has     *)
(* resolved, the page's local list shows no row that is gone from the      *)
(* store, also when a delete was started while another was in flight.      *)
(***************************************************************************)
C16_ListWithinStore ==
  (dels = {} /\ fetches = {} /\ switches = 0) =>
     /\ Range(dashList) \subseteq dbPodcasts
     /\ Range(episodes) \subseteq dbEpisodes

(***************************************************************************)
(* C17: a user who owns no podcast is shown the dashboard's empty state    *)
(* once the fetch has ended; and when a user who owned none has made one   *)
(* successful create-podcast submission, a dashboard list fetched after it *)
(* holds exactly one row, with the submitted title and the user's id as    *)
(* author_id.                                                              *)
(***************************************************************************)
C17_EmptyThenOne ==
  /\ (jAt = "Dashboard" /\ ~jLoading /\ jOwnedAtStart = 0 /\ jCreated = <<>>) => EmptyState
  /\ (jAt = "Dashboard" /\ ~jLoading /\ ~jError /\ jOwnedAtStart = 0 /\ Len(jCreated) = 1) =>
        /\ Len(jList) = 1
        /\ jList[1].title = jCreated[1]
        /\ jList[1].author_id = jUser
        /\ Len(jCreated[1]) >= 3

C17_Witness ==
  /\ jAt = "Dashboard" /\ ~jLoading /\ ~jError
  /\ jOwnedAtStart = 0
  /\ jCreated = <<"Test Show">>
  /\ Len(jList) = 1 /\ jList[1].title = "Test Show"

(***************************************************************************)
(* C18: the value onSubmit receives from getAudioDuration is settled once  *)
(* per call.  When the audio element reported metadata it is the whole     *)
(* number of seconds nearest to the reported duration (halves go up; a     *)
(* duration that is not finite stays so); when the element reported an     *)
(* error it is the whole number nearest to size / 1048576 * 60.  A later   *)
(* event of the element does not change it.                                *)
(***************************************************************************)
C18_Nearest(d, num, den) == 2 * den * d - den <= 2 * num /\ 2 * num < 2 * den * d + den

C18_DurationValue ==
  /\ [](sub.pc \in {"upload", "insert"} /\ uPage = "CreateEpisode" =>
          /\ sub.audio.resolves >= 1
          /\ IF sub.audio.reported = MetadataError
               THEN LET q == sub.file.size \div 1048576
                        r == sub.file.size % 1048576
                    IN  C18_Nearest(sub.duration - 60 * q, 60 * r, 1048576)
               ELSE IF sub.audio.reported = NotFinite
               THEN sub.duration = NotFinite
               ELSE C18_Nearest(sub.duration, sub.audio.reported, 1000))
  /\ [][(sub.pc \in {"upload", "insert"} /\ sub'.pc \in {"upload", "insert"}) =>
          sub'.duration = sub.duration]_vars

C18_Witness ==
  /\ sub.pc = "insert" /\ uPage = "CreateEpisode"
  /\ sub.audio = [reported |-> 500, resolves |-> 2]
  /\ sub.duration = 1

(***************************************************************************)
(* C19: when the favorite-status check of EpisodePlayer or the             *)
(* subscription-status check of PodcastDetail fails, the failure is only   *)
(* logged: the episode or podcast that was fetched is displayed and no     *)
(* error view replaces it.                                                 *)
(***************************************************************************)
C19_StatusCheckSilent ==
  (fPc = "done" /\ fFailed \in StatusChecks) =>
     /\ fLogged
     /\ ShowsContent
     /\ ~fError

(***************************************************************************)
(* C20: on each page that fetches on mount, once the first fetch has ended *)
(* with a failure the page no longer shows its loading indicator and shows *)
(* the error message.                                                      *)
(***************************************************************************)
C20_FailureLeavesLoading ==
  (fPc = "done" /\ fFailed # "none" /\ fRuns = 1) =>
     /\ ~ShowsSpinner
     /\ ShowsErrorMessage

(***************************************************************************)
(* C21: an upload is issued only after the check of its bucket has ended   *)
(* with the bucket present: on CreatePodcast after checkBucketExists found *)
(* 'podcast-covers', on CreateEpisode after createStorageBucket found or   *)
(* created 'podcast-audio'; and createBucket is called only when the       *)
(* listing did not name the bucket.                                        *)
(***************************************************************************)
C21_CheckBeforeUpload ==
  [][
     /\ (sub'.pc = "upload" /\ sub.pc # "upload") =>
          IF uPage = "CreatePodcast"
            THEN bucketReady /\ ~bucketCheck
            ELSE audioBucket.pc = "done" /\ audioBucket.result \in {"found", "created"}
     /\ (audioBucket'.pc = "create" /\ audioBucket.pc # "create") =>
          audioBucket.result = "pending"
    ]_vars

C23_SchemaIntegrity ==
  /\ [](/\ \A e \in sqlEpisodes : \E p \in sqlPodcasts : p.id = e.podcast_id
        /\ \A b \in sqlSubscriptions : \E p \in sqlPodcasts : p.id = b.podcast_id
        /\ \A f \in sqlFavorites : \E e \in sqlEpisodes : e.id = f.episode_id
        /\ \A a, b \in sqlSubscriptions :
             (a.user_id = b.user_id /\ a.podcast_id = b.podcast_id) => a = b
        /\ \A a, b \in sqlFavorites :
             (a.user_id = b.user_id /\ a.episode_id = b.episode_id) => a = b)
  /\ [][\A p \in sqlPodcasts \ sqlPodcasts' :
          /\ \A e \in sqlEpisodes' : e.podcast_id # p.id
          /\ \A b \in sqlSubscriptions' : b.podcast_id # p.id
          /\ \A f \in sqlFavorites' :
               \A e \in sqlEpisodes : e.podcast_id = p.id => f.episode_id # e.id]_vars

C23_Witness ==
  /\ sqlLast.stmt = "delete podcast"
  /\ sqlLast.episodes = 1 /\ sqlLast.subscriptions = 1 /\ sqlLast.favorites = 1
  /\ sqlEpisodes = {} /\ sqlSubscriptions = {} /\ sqlFavorites = {}

(***************************************************************************)
(* C24: whenever playerRef holds an audio engine, the engine's volume is   *)
(* the component's volume state.                                           *)
(***************************************************************************)
C24_EngineVolumeIsState ==
  playerRef.made => playerRef.volume = volume

(***************************************************************************)
(* C25: whenever no toggle call is in flight, the displayed flag           *)
(* (isFavorite / isSubscribed) equals the existence of the join row of the *)
(* current user.                                                           *)
(***************************************************************************)
C25_QuiescentFlagIsRow ==
  calls = {} => flag = (tUser \in rows)

(***************************************************************************)
(* C26: once every fetch the page started has resolved, the data the page  *)
(* displays belongs to the current route id and user, not to an earlier    *)
(* request (stated on EpisodePlayer, whose load effect is the pattern of   *)
(* the other pages).                                                       *)
(***************************************************************************)
C26_DisplaysCurrentRequest ==
  (Controls /\ loads = {}) => episode = pId

(***************************************************************************)
(* C27: in every state of EpisodePlayer at most one animation-frame        *)
(* polling callback is pending, and animationRef holds its id.             *)
(***************************************************************************)
C27_OnePollingCallback ==
  /\ Cardinality(pending) <= 1
  /\ \A f \in pending : animationRef = f

C30_UploadingEnds ==
  isUploading ~> (~isUploading /\ uploadProgress = 0)

\* A CreateEpisode submission failed at the upload or the insert and was cleaned up.
C30_Witness ==
  /\ uPage = "CreateEpisode"
  /\ subDone.outcome \in {"upload", "insert"}
  /\ ~isUploading /\ uploadProgress = 0 /\ sub.pc = "idle"

====
